---------------------------- MODULE Spec2Model ----------------------------
(***************************************************************************)
(* Model of the MaxWaveX backend (Express + MySQL): the identity tokens,   *)
(* the guest sessions, the per-user module progress and the game results.  *)
(*                                                                         *)
(* The store is the four tables the handlers write or read.  A table is a  *)
(* sequence of rows in insertion order; the AUTO_INCREMENT key of a new    *)
(* row is Len(table) + 1, because no handler ever deletes a row.           *)
(*                                                                         *)
(* A handler with one store statement is one action.  The three progress   *)
(* handlers issue several awaited statements; each statement is one atomic *)
(* step of the store, so such a handler is a little process (inflight[i])  *)
(* whose steps interleave with those of the other requests.                *)
(*                                                                         *)
(* Time is counted in ticks of 30 minutes.  The synchronous code of a      *)
(* handler takes no time.                                                  *)
(***************************************************************************)
EXTENDS Integers, Sequences, FiniteSets, TLC

(***************************************************************************)
(* Bounds of the model.                                                    *)
(***************************************************************************)
MaxUsers == 1
MaxGuests == 1
MaxTokens == 2
MaxResults == 1
MaxProgress == 2
MaxInflight == 2
MaxTime == 3
MaxBoard == 3

(***************************************************************************)
(* Program constants, in ticks of 30 minutes.                              *)
(***************************************************************************)
\* one hour of the clock
TicksPerHour == 2
\* Date.now() + 3600000: a guest session lives one hour
GuestSessionTTL == 2
\* expiresIn: '1h' of the guest token
GuestTokenTTL == 2
\* expiresIn: '24h' of a registered user's token
UserTokenTTL == 48
\* SQL NULL / JS null; also an absent numeric claim of a token (no id or time
\* of the model is negative)
NULL == -1

(***************************************************************************)
(* JavaScript values of a request body.  A field is either undefined or a  *)
(* value v, written <<v>>.                                                 *)
(***************************************************************************)
undefined == <<>>
Val(v) == <<v>>
IsUndefined(x) == x = undefined
\* x < n, x > n, x >= n with JS semantics: a comparison with undefined is false
JsLt(x, n) == x # undefined /\ x[1] < n
JsGt(x, n) == x # undefined /\ x[1] > n
JsGe(x, n) == x # undefined /\ x[1] >= n
\* !x for a number: undefined and 0 are falsy
JsNotNum(x) == x = undefined \/ x[1] = 0
\* !x for a string: undefined and "" are falsy
JsNotStr(x) == x = undefined \/ x[1] = ""
\* x || 0
JsOrZero(x) == IF JsNotNum(x) THEN 0 ELSE x[1]
\* x || d for a number x
JsOr(x, d) == IF JsNotNum(x) THEN d ELSE x[1]
\* Math.min
Min(a, b) == IF a < b THEN a ELSE b

(***************************************************************************)
(* The modulos table.  No handler writes it: it is the set of module ids.  *)
(***************************************************************************)
modulos == {1}
ModuleIds == {1, 2}

\* findById that finds a row whatever the id
findById_Any(table, id) == TRUE

\* findById(table, id): SELECT * FROM table WHERE id = ? LIMIT 1, the row
\* whose key is id, or null (the table's schema is the store's; the key column
\* is taken to be the one the statement names)
findById(table, id) == id \in table

(***************************************************************************)
(* Inputs.                                                                 *)
(***************************************************************************)
Names == {"Ada"}
Emails == {"a@x.com", "A@X.com"}
Passwords == {"secret1"}
Usernames == {undefined, Val(" B "), Val("Bob")}
GuestNames == {undefined, Val(""), Val(" B "), Val("Bob")}
GameTypes == {undefined, Val(""), Val("snake")}
Scores == {undefined, Val(-1), Val(0)}
Levels == {Val(-1), Val(0), Val(1)}
Times == {Val(-1), Val(0), Val(4)}
Metadatas == {undefined}
Percentages == {undefined, Val(-1), Val(0), Val(99), Val(100), Val(101)}
TimesSpent == {undefined, Val(-1), Val(3)}
ProgressScores == {undefined, Val(-1), Val(7)}

\* String.prototype.toLowerCase on the strings of the model
toLowerCase(s) == IF s = "A@X.com" THEN "a@x.com" ELSE s
\* trim that leaves the blanks in
trim_Nothing(s) == s

\* String.prototype.trim on the strings of the model
trim(s) == IF s = " B " THEN "B" ELSE s

VARIABLES
    usuarios,            \* table usuarios
    sesiones_invitados,  \* table sesiones_invitados
    progreso_usuarios,   \* table progreso_usuarios
    resultados_juegos,   \* table resultados_juegos
    tokens,              \* the tokens jwt.sign has issued
    now,                 \* the clock
    inflight,            \* the progress requests being handled
    resp                 \* the last response sent, with its request

vars == <<usuarios, sesiones_invitados, progreso_usuarios, resultados_juegos,
          tokens, now, inflight, resp>>

store == <<usuarios, sesiones_invitados, progreso_usuarios, resultados_juegos>>

Slots == 1..MaxInflight
Idle == [pc |-> "idle"]

Init ==
    /\ usuarios = <<>>
    /\ sesiones_invitados = <<>>
    /\ progreso_usuarios = <<>>
    /\ resultados_juegos = <<>>
    /\ tokens = {}
    /\ now = 0
    /\ inflight = [i \in Slots |-> Idle]
    /\ resp = [op |-> "none", status |-> 0]

Rows(table) == {table[i] : i \in 1..Len(table)}

(***************************************************************************)
(* Tokens.  sig is "ok" for a token signed with the server's key.          *)
(***************************************************************************)
NoToken == [sig |-> "none", userId |-> NULL, guestId |-> NULL, sessionId |-> NULL,
            email |-> "", username |-> "", userType |-> "", exp |-> 0]
BadToken == [NoToken EXCEPT !.sig = "bad"]

\* jwt.sign(claims, secret, {expiresIn})
jwtSign(claims, ttl) ==
    [sig |-> "ok", userId |-> claims.userId, guestId |-> claims.guestId,
     sessionId |-> claims.sessionId, email |-> claims.email,
     username |-> claims.username, userType |-> claims.userType,
     exp |-> now + ttl]

\* jwt.verify: err for a bad signature and for a token at or past its exp
jwtVerifyErr(token) == token.sig # "ok" \/ now >= token.exp

\* the tokens a caller can present
Presented == tokens \cup {NoToken, BadToken}

\* reqUser taking the guest id first
reqUser_GuestFirst(decoded) ==
    [userId |-> IF decoded.guestId # NULL THEN decoded.guestId ELSE decoded.userId,
     guestId |-> decoded.guestId,
     sessionId |-> decoded.sessionId,
     email |-> decoded.email,
     username |-> decoded.username,
     userType |-> IF decoded.userType # "" THEN decoded.userType ELSE "student"]

\* reqUser without the guest id standing in for the user id
reqUser_NoAlias(decoded) ==
    [userId |-> decoded.userId,
     guestId |-> decoded.guestId,
     sessionId |-> decoded.sessionId,
     email |-> decoded.email,
     username |-> decoded.username,
     userType |-> IF decoded.userType # "" THEN decoded.userType ELSE "student"]

\* req.user as authenticateToken normalizes it
reqUser(decoded) ==
    [userId |-> IF decoded.userId # NULL THEN decoded.userId ELSE decoded.guestId,
     guestId |-> decoded.guestId,
     sessionId |-> decoded.sessionId,
     email |-> decoded.email,
     username |-> decoded.username,
     userType |-> IF decoded.userType # "" THEN decoded.userType ELSE "student"]

\* authenticateToken: 401 without a token, 403 when jwt.verify fails, else next()
authenticateToken(token) ==
    IF token.sig = "none" THEN 401
    ELSE IF jwtVerifyErr(token) THEN 403
    ELSE 200

\* tokens signed with the server's key whose claims are not those of a
\* registration, a login or a guest session: no kind, both ids, a guest id alone
OtherSigned ==
    {[NoToken EXCEPT !.sig = "ok", !.userId = c[1], !.guestId = c[2],
                     !.userType = c[3], !.exp = UserTokenTTL] :
        c \in {<<NULL, 1, "">>, <<1, 2, "">>, <<1, NULL, "">>, <<1, 2, "guest">>}}

\* a request passes authenticateToken: the response of the middleware, or
\* the req.user it hands to the handler
Authenticate(token) ==
    /\ resp' = IF authenticateToken(token) # 200
               THEN [op |-> "authenticate", token |-> token,
                     status |-> authenticateToken(token)]
               ELSE [op |-> "authenticate", token |-> token, status |-> 200,
                     user |-> reqUser(token)]
    /\ UNCHANGED <<store, tokens, now, inflight>>


(***************************************************************************)
(* Store primitives of config/database.js.                                 *)
(***************************************************************************)
\* insert(table, data): appends the row under the next AUTO_INCREMENT key
insertId(table) == Len(table) + 1

\* insertRow that replaces the last row, as REPLACE INTO on a clashing key
insertRow_Replace(table, row) ==
    IF table = <<>> THEN <<row>> ELSE [table EXCEPT ![Len(table)] = row]

\* INSERT INTO table (...) VALUES (...): the table gains the row
insertRow(table, row) == Append(table, row)

\* findByField('usuarios', field, value): the first matching row, or none
findByField(table, field, value) ==
    {r \in Rows(table) : r[field] = value}

\* update that never lowers a stored percentage
update_Monotone(table, idField, id, data) ==
    [i \in 1..Len(table) |->
        IF table[i][idField] = id
        THEN [f \in DOMAIN table[i] |->
                 IF f \notin DOMAIN data THEN table[i][f]
                 ELSE IF f = "porcentaje_completado" /\ data[f] < table[i][f]
                 THEN table[i][f]
                 ELSE data[f]]
        ELSE table[i]]

\* update that flips a boolean column instead of setting it
update_Toggle(table, idField, id, data) ==
    [i \in 1..Len(table) |->
        IF table[i][idField] = id
        THEN [f \in DOMAIN table[i] |->
                 IF f \notin DOMAIN data THEN table[i][f]
                 ELSE IF data[f] \in BOOLEAN THEN ~table[i][f]
                 ELSE data[f]]
        ELSE table[i]]

\* update with no WHERE: every row of the table is set
update_AllRows(table, idField, id, data) ==
    [i \in 1..Len(table) |->
        [f \in DOMAIN table[i] |->
            IF f \in DOMAIN data THEN data[f] ELSE table[i][f]]]

\* update that keeps the stored value where the new one is 0 or false
update_KeepOnZero(table, idField, id, data) ==
    [i \in 1..Len(table) |->
        IF table[i][idField] = id
        THEN [f \in DOMAIN table[i] |->
                 IF f \notin DOMAIN data THEN table[i][f]
                 ELSE IF f = "esta_completado" /\ ~data[f] THEN table[i][f]
                 ELSE IF /\ f \in {"porcentaje_completado", "tiempo_empleado",
                                   "puntuacion"}
                         /\ data[f] = 0
                 THEN table[i][f]
                 ELSE data[f]]
        ELSE table[i]]

\* update(table, id, data): UPDATE table SET data WHERE <key of table> = id
update(table, idField, id, data) ==
    [i \in 1..Len(table) |->
        IF table[i][idField] = id
        THEN [f \in DOMAIN table[i] |->
                 IF f \in DOMAIN data THEN data[f] ELSE table[i][f]]
        ELSE table[i]]

(***************************************************************************)
(* routes/auth.js                                                          *)
(***************************************************************************)
\* express-validator's normalizeEmail (all_lowercase) on the model's emails
normalizeEmail(e) == toLowerCase(e)
\* bcrypt.hash and bcrypt.compare
bcryptHash(password) == <<"bcrypt", password>>
bcryptCompare(password, hash) == hash = bcryptHash(password)

\* registerValidation
registerValid(name, email, password) ==
    /\ Len(trim(name)) >= 2 /\ Len(trim(name)) <= 100
    /\ Len(password) >= 6

\* POST /register, while usuarios holds fewer than capUsers rows and fewer
\* than capTokens tokens have been issued
RegisterUpTo(capUsers, capTokens, name, emailIn, password) ==
    LET email == normalizeEmail(emailIn)
        existingUser == findByField(usuarios, "correo_electronico", toLowerCase(email))
        id == insertId(usuarios)
        userData == [id_usuario |-> id,
                     nombre |-> trim(name),
                     correo_electronico |-> toLowerCase(email),
                     contrasena |-> bcryptHash(password),
                     tipo_usuario |-> "estudiante",
                     fecha_creacion |-> now,
                     esta_activo |-> TRUE,
                     ultimo_inicio_sesion |-> NULL]
        token == jwtSign([userId |-> id, guestId |-> NULL, sessionId |-> NULL,
                          email |-> toLowerCase(email), username |-> "",
                          userType |-> "student"], UserTokenTTL)
        req == [op |-> "register", name |-> name, email |-> emailIn]
    IN
    IF ~registerValid(name, email, password)
    THEN /\ resp' = req @@ [status |-> 400]
         /\ UNCHANGED <<store, tokens, now, inflight>>
    ELSE IF existingUser # {}
    THEN /\ resp' = req @@ [status |-> 409]
         /\ UNCHANGED <<store, tokens, now, inflight>>
    ELSE /\ Len(usuarios) < capUsers
         /\ Cardinality(tokens \cup {token}) <= capTokens
         /\ usuarios' = insertRow(usuarios, userData)
         /\ tokens' = tokens \cup {token}
         /\ resp' = req @@ [status |-> 201, id |-> id, token |-> token]
         /\ UNCHANGED <<sesiones_invitados, progreso_usuarios, resultados_juegos,
                        now, inflight>>

\* POST /register
Register(name, emailIn, password) ==
    RegisterUpTo(MaxUsers, MaxTokens, name, emailIn, password)

\* loginClaims reading the key of the row under the name id
loginClaims_NoKey(user) ==
    [userId |-> NULL, guestId |-> NULL, sessionId |-> NULL,
     email |-> user.correo_electronico, username |-> "",
     userType |-> user.tipo_usuario]

\* the claims of the token of a login
loginClaims(user) ==
    [userId |-> user.id_usuario, guestId |-> NULL, sessionId |-> NULL,
     email |-> user.correo_electronico, username |-> "",
     userType |-> user.tipo_usuario]

\* POST /login
Login(emailIn, password) ==
    LET email == normalizeEmail(emailIn)
        found == findByField(usuarios, "correo_electronico", toLowerCase(email))
        req == [op |-> "login", email |-> emailIn, password |-> password]
    IN
    IF found = {}
    THEN /\ resp' = req @@ [status |-> 401]
         /\ UNCHANGED <<store, tokens, now, inflight>>
    ELSE \E user \in found :
         IF ~user.esta_activo \/ ~bcryptCompare(password, user.contrasena)
         THEN /\ resp' = req @@ [status |-> 401]
              /\ UNCHANGED <<store, tokens, now, inflight>>
         ELSE LET token == jwtSign(loginClaims(user), UserTokenTTL)
              IN /\ Cardinality(tokens \cup {token}) <= MaxTokens
                 /\ usuarios' = update(usuarios, "id_usuario", user.id_usuario,
                                       [ultimo_inicio_sesion |-> now])
                 /\ tokens' = tokens \cup {token}
                 /\ resp' = req @@ [status |-> 200, id |-> user.id_usuario,
                                    token |-> token]
                 /\ UNCHANGED <<sesiones_invitados, progreso_usuarios,
                                resultados_juegos, now, inflight>>

\* expiresAt with the hour left out
expiresAt_NoTTL(t) == t

\* new Date(Date.now() + 3600000)
expiresAt(t) == t + GuestSessionTTL

\* uuidv4(): the n-th identifier drawn; all are distinct, and none is the key
\* of a row
uuidv4(n) == 100 + n

\* POST /guest
CreateGuest(username) ==
    LET req == [op |-> "guest", username |-> username] IN
    IF JsNotStr(username) \/ Len(trim(username[1])) < 2
    THEN /\ resp' = req @@ [status |-> 400]
         /\ UNCHANGED <<store, tokens, now, inflight>>
    ELSE LET id == insertId(sesiones_invitados)
             sessionId == uuidv4(id)
             guestData == [id_sesion_invitado |-> id,
                           identificador_sesion |-> sessionId,
                           nombre_usuario |-> trim(username[1]),
                           fecha_creacion |-> now,
                           fecha_expiracion |-> expiresAt(now),
                           esta_activo |-> TRUE]
             token == jwtSign([userId |-> NULL, guestId |-> id,
                               sessionId |-> sessionId, email |-> "",
                               username |-> trim(username[1]),
                               userType |-> "guest"], GuestTokenTTL)
         IN /\ Len(sesiones_invitados) < MaxGuests
            /\ Cardinality(tokens \cup {token}) <= MaxTokens
            /\ sesiones_invitados' = insertRow(sesiones_invitados, guestData)
            /\ tokens' = tokens \cup {token}
            /\ resp' = req @@ [status |-> 200, id |-> id, token |-> token]
            /\ UNCHANGED <<usuarios, progreso_usuarios, resultados_juegos,
                           now, inflight>>

\* activeUnexpiredGuest that does not look at esta_activo
activeUnexpiredGuest_AnyState(guestId) ==
    {g \in Rows(sesiones_invitados) :
        g.id_sesion_invitado = guestId /\ g.fecha_expiracion > now}

\* SELECT * FROM sesiones_invitados WHERE id_sesion_invitado = ?
\*   AND esta_activo = true AND fecha_expiracion > NOW()
activeUnexpiredGuest(guestId) ==
    {g \in Rows(sesiones_invitados) :
        g.id_sesion_invitado = guestId /\ g.esta_activo /\ g.fecha_expiracion > now}

\* SELECT * FROM sesiones_invitados WHERE id_sesion_invitado = ? AND esta_activo = true
activeGuest(guestId) ==
    {g \in Rows(sesiones_invitados) :
        g.id_sesion_invitado = guestId /\ g.esta_activo}

\* the status GET /verify answers a token with
verifyStatus(token) ==
    LET user == reqUser(token) IN
    IF authenticateToken(token) # 200 THEN authenticateToken(token)
    ELSE IF user.userType = "guest"
    THEN IF activeUnexpiredGuest(user.guestId) = {} THEN 401 ELSE 200
    ELSE IF \E u \in findByField(usuarios, "id_usuario", user.userId) : u.esta_activo
         THEN 200 ELSE 401

\* GET /verify
Verify(token) ==
    /\ resp' = [op |-> "verify", token |-> token, status |-> verifyStatus(token)]
    /\ UNCHANGED <<store, tokens, now, inflight>>

\* POST /logout
Logout(token) ==
    LET user == reqUser(token)
        auth == authenticateToken(token)
    IN
    /\ resp' = [op |-> "logout", token |-> token, status |-> auth]
    /\ sesiones_invitados' =
          IF auth = 200 /\ user.userType = "guest" /\ user.guestId # NULL
          THEN update(sesiones_invitados, "id_sesion_invitado", user.guestId,
                      [esta_activo |-> FALSE])
          ELSE sesiones_invitados
    /\ UNCHANGED <<usuarios, progreso_usuarios, resultados_juegos, tokens, now,
                   inflight>>

\* the status GET /profile answers a token with
profileStatus(token) ==
    LET user == reqUser(token) IN
    IF authenticateToken(token) # 200 THEN authenticateToken(token)
    ELSE IF user.userType = "guest"
    THEN IF activeGuest(user.guestId) = {} THEN 404 ELSE 200
    ELSE IF findByField(usuarios, "id_usuario", user.userId) = {} THEN 404 ELSE 200

\* GET /profile
Profile(token) ==
    /\ resp' = [op |-> "profile", token |-> token, status |-> profileStatus(token)]
    /\ UNCHANGED <<store, tokens, now, inflight>>

\* the passage of time
Tick ==
    /\ now < MaxTime
    /\ now' = now + 1
    /\ UNCHANGED <<store, tokens, inflight, resp>>

(***************************************************************************)
(* routes/games.js                                                         *)
(***************************************************************************)
\* !gameType || score === undefined || !levelReached || !timePlayed
resultIncomplete(gameType, score, levelReached, timePlayed) ==
    \/ JsNotStr(gameType)
    \/ IsUndefined(score)
    \/ JsNotNum(levelReached)
    \/ JsNotNum(timePlayed)

\* resultInvalid with the check of the score left out
resultInvalid_NoScore(score, levelReached, timePlayed) ==
    \/ JsLt(levelReached, 1)
    \/ JsLt(timePlayed, 0)

\* score < 0 || levelReached < 1 || timePlayed < 0
resultInvalid(score, levelReached, timePlayed) ==
    \/ JsLt(score, 0)
    \/ JsLt(levelReached, 1)
    \/ JsLt(timePlayed, 0)

\* resultIdUsuario that sets the user id for a guest too
resultIdUsuario_Always(user) == user.userId

\* id_usuario: req.user.userType === 'guest' ? null : req.user.userId
resultIdUsuario(user) ==
    IF user.userType = "guest" THEN NULL ELSE user.userId

\* id_sesion_invitado: req.user.userType === 'guest' ? req.user.guestId : null
resultIdSesionInvitado(user) ==
    IF user.userType = "guest" THEN user.guestId ELSE NULL

\* metadata ? JSON.stringify(metadata) : null
resultMetadatos(metadata) ==
    IF IsUndefined(metadata) THEN <<>> ELSE <<"json", metadata[1]>>

\* POST /result, while the table holds fewer than cap rows
RecordResultUpTo(cap, token, gameType, score, levelReached, timePlayed, metadata) ==
    LET user == reqUser(token)
        auth == authenticateToken(token)
        req == [op |-> "result", token |-> token, gameType |-> gameType,
                score |-> score, levelReached |-> levelReached,
                timePlayed |-> timePlayed]
        id == insertId(resultados_juegos)
    IN
    IF auth # 200
    THEN /\ resp' = req @@ [status |-> auth]
         /\ UNCHANGED <<store, tokens, now, inflight>>
    ELSE IF resultIncomplete(gameType, score, levelReached, timePlayed)
    THEN /\ resp' = req @@ [status |-> 400]
         /\ UNCHANGED <<store, tokens, now, inflight>>
    ELSE IF resultInvalid(score, levelReached, timePlayed)
    THEN /\ resp' = req @@ [status |-> 400]
         /\ UNCHANGED <<store, tokens, now, inflight>>
    ELSE /\ Len(resultados_juegos) < cap
         /\ resultados_juegos' = insertRow(resultados_juegos,
                [id_resultado |-> id,
                 id_usuario |-> resultIdUsuario(user),
                 id_sesion_invitado |-> resultIdSesionInvitado(user),
                 tipo_juego |-> gameType[1],
                 puntuacion |-> score[1],
                 nivel_alcanzado |-> levelReached[1],
                 tiempo_jugado |-> timePlayed[1],
                 metadatos |-> resultMetadatos(metadata),
                 fecha_juego |-> now])
         /\ resp' = req @@ [status |-> 201, resultId |-> id]
         /\ UNCHANGED <<usuarios, sesiones_invitados, progreso_usuarios, tokens,
                        now, inflight>>

\* POST /result
RecordResult(token, gameType, score, levelReached, timePlayed, metadata) ==
    RecordResultUpTo(MaxResults, token, gameType, score, levelReached,
                     timePlayed, metadata)

\* ownResults matching the caller's id in either owner column
ownResults_EitherColumn(user, gameType) ==
    {r \in Rows(resultados_juegos) :
        /\ r.tipo_juego = gameType
        /\ \/ r.id_sesion_invitado = user.userId
           \/ r.id_usuario = user.userId}

\* WHERE ${userCondition} AND tipo_juego = ?
ownResults(user, gameType) ==
    {r \in Rows(resultados_juegos) :
        /\ r.tipo_juego = gameType
        /\ IF user.userType = "guest"
           THEN r.id_sesion_invitado # NULL /\ r.id_sesion_invitado = user.guestId
           ELSE r.id_usuario # NULL /\ r.id_usuario = user.userId}

\* ownRows matching the caller's number in either owner column
ownRows_ByNumber(user) ==
    {i \in 1..Len(resultados_juegos) :
        \/ resultados_juegos[i].id_sesion_invitado = user.userId
        \/ resultados_juegos[i].id_usuario = user.userId}

\* WHERE ${userCondition}: the rows of the caller, by their places in the table
ownRows(user) ==
    {i \in 1..Len(resultados_juegos) :
        IF user.userType = "guest"
        THEN /\ resultados_juegos[i].id_sesion_invitado # NULL
             /\ resultados_juegos[i].id_sesion_invitado = user.guestId
        ELSE /\ resultados_juegos[i].id_usuario # NULL
             /\ resultados_juegos[i].id_usuario = user.userId}

\* SUM(column) over the rows S (0 here for no rows; see avgOf and sumOrNull)
RECURSIVE sumOf(_, _)
sumOf(S, column) ==
    IF S = {} THEN 0
    ELSE LET i == CHOOSE j \in S : TRUE
         IN resultados_juegos[i][column] + sumOf(S \ {i}, column)
\* SUM(column): NULL over no rows
sumOrNull(S, column) == IF S = {} THEN NULL ELSE sumOf(S, column)
\* MAX(column) and MIN(column): NULL over no rows
maxOf(S, column) ==
    IF S = {} THEN NULL
    ELSE CHOOSE v \in {resultados_juegos[i][column] : i \in S} :
            \A i \in S : v >= resultados_juegos[i][column]
minOf(S, column) ==
    IF S = {} THEN NULL
    ELSE CHOOSE v \in {resultados_juegos[i][column] : i \in S} :
            \A i \in S : v <= resultados_juegos[i][column]
\* AVG(column), as the sum over the count; NULL over no rows (count 0)
avgOf(S, column) == [sum |-> sumOf(S, column), count |-> Cardinality(S)]

\* the orders an ORDER BY may return the elements of S in, <<a, b>> in
\* before saying that a must come before b
ordersOf(S, before) ==
    {o \in [1..Cardinality(S) -> S] :
        /\ \A i, j \in 1..Cardinality(S) : i # j => o[i] # o[j]
        /\ \A i, j \in 1..Cardinality(S) : i < j => <<o[j], o[i]>> \notin before}

\* stats[0] of GET /stats
generalStats(S) ==
    [total_games_played |-> Cardinality(S),
     unique_games_played |-> Cardinality({resultados_juegos[i].tipo_juego : i \in S}),
     best_score |-> maxOf(S, "puntuacion"),
     average_score |-> avgOf(S, "puntuacion"),
     highest_level |-> maxOf(S, "nivel_alcanzado"),
     average_level |-> avgOf(S, "nivel_alcanzado"),
     total_time_played |-> sumOrNull(S, "tiempo_jugado"),
     first_game |-> minOf(S, "fecha_juego"),
     last_game |-> maxOf(S, "fecha_juego")]

\* one row of gameTypeStats: GROUP BY tipo_juego
gameTypeGroup(S, gameType) ==
    LET G == {i \in S : resultados_juegos[i].tipo_juego = gameType} IN
    [game_type |-> gameType,
     games_played |-> Cardinality(G),
     best_score |-> maxOf(G, "puntuacion"),
     average_score |-> avgOf(G, "puntuacion"),
     highest_level |-> maxOf(G, "nivel_alcanzado"),
     total_time |-> sumOrNull(G, "tiempo_jugado")]

\* one row of recentGames
recentGame(i) ==
    [game_type |-> resultados_juegos[i].tipo_juego,
     score |-> resultados_juegos[i].puntuacion,
     level_reached |-> resultados_juegos[i].nivel_alcanzado,
     time_played |-> resultados_juegos[i].tiempo_jugado,
     played_at |-> resultados_juegos[i].fecha_juego]

\* LIMIT 10 of recentGames
RecentLimit == 10

\* GET /stats
Stats(token) ==
    LET user == reqUser(token)
        auth == authenticateToken(token)
        req == [op |-> "stats", token |-> token]
        S == ownRows(user)
        groups == {gameTypeGroup(S, g) : g \in {resultados_juegos[i].tipo_juego : i \in S}}
        higher == {p \in groups \X groups : p[1].best_score > p[2].best_score}
        later == {p \in S \X S : resultados_juegos[p[1]].fecha_juego
                                     > resultados_juegos[p[2]].fecha_juego}
    IN
    /\ IF auth # 200
       THEN resp' = req @@ [status |-> auth]
       ELSE \E byGameType \in ordersOf(groups, higher), recent \in ordersOf(S, later) :
            resp' = req @@ [status |-> 200,
                            general |-> generalStats(S),
                            byGameType |-> byGameType,
                            recentGames |->
                                [k \in 1..Min(RecentLimit, Cardinality(S)) |->
                                    recentGame(recent[k])]]
    /\ UNCHANGED <<store, tokens, now, inflight>>

\* the query string's limit, as the client writes it
LimitInputs == {undefined, Val("abc"), Val("0"), Val("-1"), Val("1"), Val("2"),
                Val("500")}
\* the numerals of the model and the numbers they denote
Numerals == ("0" :> 0) @@ ("-1" :> -1) @@ ("1" :> 1) @@ ("2" :> 2) @@ ("500" :> 500)
\* NaN is falsy, like undefined
NaN == <<>>
\* parseInt: the number a numeral denotes, NaN for anything else
parseInt(s) ==
    IF s = undefined \/ s[1] \notin DOMAIN Numerals THEN NaN ELSE Val(Numerals[s[1]])
\* the || 10 and the 100 of the limit
DefaultLimit == 10
LimitCap == 100

\* Math.min(parseInt(req.query.limit) || 10, 100)
leaderboardLimit(limit) == Min(JsOr(parseInt(limit), DefaultLimit), LimitCap)

\* orderedBefore with the slower game first
orderedBefore_SlowerFirst(a, b) ==
    \/ a.puntuacion > b.puntuacion
    \/ a.puntuacion = b.puntuacion /\ a.nivel_alcanzado > b.nivel_alcanzado
    \/ /\ a.puntuacion = b.puntuacion
       /\ a.nivel_alcanzado = b.nivel_alcanzado
       /\ a.tiempo_jugado > b.tiempo_jugado

\* ORDER BY puntuacion DESC, nivel_alcanzado DESC, tiempo_jugado ASC:
\* row a must come before row b
orderedBefore(a, b) ==
    \/ a.puntuacion > b.puntuacion
    \/ a.puntuacion = b.puntuacion /\ a.nivel_alcanzado > b.nivel_alcanzado
    \/ /\ a.puntuacion = b.puntuacion
       /\ a.nivel_alcanzado = b.nivel_alcanzado
       /\ a.tiempo_jugado < b.tiempo_jugado

\* the orders ORDER BY may return the rows of S in: rows the keys do not
\* tell apart come in any order
orderBy(S) ==
    {o \in [1..Cardinality(S) -> S] :
        /\ \A i, j \in 1..Cardinality(S) : i # j => o[i] # o[j]
        /\ \A i, j \in 1..Cardinality(S) :
              i < j => ~orderedBefore(resultados_juegos[o[j]], resultados_juegos[o[i]])}

\* the rows of ownResults, by their places in the table
ownResultRows(user, gameType) ==
    {i \in 1..Len(resultados_juegos) :
        resultados_juegos[i] \in ownResults(user, gameType)}

\* SELECT MAX(puntuacion) as best_score, ..., MAX(fecha_juego) as last_played
personalBest(S) ==
    [best_score |-> maxOf(S, "puntuacion"),
     highest_level |-> maxOf(S, "nivel_alcanzado"),
     fastest_time |-> minOf(S, "tiempo_jugado"),
     times_played |-> Cardinality(S),
     average_score |-> avgOf(S, "puntuacion"),
     last_played |-> maxOf(S, "fecha_juego")]

\* SELECT puntuacion as score, ..., metadatos as metadata
bestGameRow(r) ==
    [score |-> r.puntuacion, level_reached |-> r.nivel_alcanzado,
     time_played |-> r.tiempo_jugado, played_at |-> r.fecha_juego,
     metadata |-> r.metadatos]

\* ... ORDER BY puntuacion DESC, nivel_alcanzado DESC, tiempo_jugado ASC
\* LIMIT 1: the results the query may return, of no row or of one
bestGameDetails(S) ==
    {IF S = {} THEN <<>> ELSE <<bestGameRow(resultados_juegos[o[1]])>> :
        o \in orderBy(S)}

\* GET /personal-best/:gameType; bestGame is the result of the second query,
\* <<>> standing for the null of `bestGameDetails[0] || null`
PersonalBest(token, gameType) ==
    LET user == reqUser(token)
        auth == authenticateToken(token)
        req == [op |-> "personal-best", token |-> token, gameType |-> gameType]
        S == ownResultRows(user, gameType)
    IN
    /\ \E best \in bestGameDetails(S) :
          resp' = IF auth # 200 THEN req @@ [status |-> auth]
                  ELSE req @@ [status |-> 200, summary |-> personalBest(S),
                               bestGame |-> best]
    /\ UNCHANGED <<store, tokens, now, inflight>>

\* LEFT JOIN usuarios u ON rj.id_usuario = u.id_usuario
joinedUser(r) == {u \in Rows(usuarios) : u.id_usuario = r.id_usuario}
\* joinedGuest that joins only the sessions that are active and not expired
joinedGuest_Active(r) ==
    {g \in Rows(sesiones_invitados) :
        /\ g.id_sesion_invitado = r.id_sesion_invitado
        /\ g.esta_activo
        /\ g.fecha_expiracion > now}

\* LEFT JOIN sesiones_invitados si ON rj.id_sesion_invitado = si.id_sesion_invitado
joinedGuest(r) ==
    {g \in Rows(sesiones_invitados) : g.id_sesion_invitado = r.id_sesion_invitado}

\* COALESCE(u.nombre, si.nombre_usuario, 'Anónimo')
playerName(r) ==
    IF joinedUser(r) # {} THEN (CHOOSE u \in joinedUser(r) : TRUE).nombre
    ELSE IF joinedGuest(r) # {}
    THEN (CHOOSE g \in joinedGuest(r) : TRUE).nombre_usuario
    ELSE "Anónimo"

\* CASE WHEN u.id_usuario IS NOT NULL ... WHEN si.id_sesion_invitado IS NOT NULL ...
playerType(r) ==
    IF joinedUser(r) # {} THEN "registered"
    ELSE IF joinedGuest(r) # {} THEN "guest"
    ELSE "anonymous"

\* rankOf counting from 0
rankOf_FromZero(index) == index

\* rank: index + 1, index the 0-based position in the result
rankOf(index) == index + 1

\* one entry of leaderboardWithRank
rankedEntry(r, index) ==
    [rank |-> rankOf(index),
     score |-> r.puntuacion,
     level_reached |-> r.nivel_alcanzado,
     time_played |-> r.tiempo_jugado,
     played_at |-> r.fecha_juego,
     player_name |-> playerName(r),
     player_type |-> playerType(r)]

\* GET /leaderboard/:gameType (no authentication).  The store refuses a
\* negative LIMIT and the handler answers 500.
Leaderboard(gameType, limit) ==
    LET lim == leaderboardLimit(limit)
        req == [op |-> "leaderboard", gameType |-> gameType, query |-> limit,
                limit |-> lim]
        matching == {i \in 1..Len(resultados_juegos) :
                        resultados_juegos[i].tipo_juego = gameType}
    IN
    /\ IF lim < 0
       THEN resp' = req @@ [status |-> 500]
       ELSE \E o \in orderBy(matching) :
            LET leaderboard ==
                    [k \in 1..Min(lim, Cardinality(matching)) |->
                        rankedEntry(resultados_juegos[o[k]], k - 1)]
            IN resp' = req @@ [status |-> 200,
                               totalEntries |-> Len(leaderboard),
                               leaderboard |-> leaderboard]
    /\ UNCHANGED <<store, tokens, now, inflight>>

(***************************************************************************)
(* routes/progress.js                                                      *)
(***************************************************************************)
\* insert('progreso_usuarios', data): a column the data omits takes the
\* column's default (ultimo_acceso: the time of the insert)
insertProgress(table, data) ==
    insertRow(table, [id_progreso |-> insertId(table)] @@ data
                     @@ [ultimo_acceso |-> now])

\* selectProgress whose WHERE matches no row
selectProgress_Nothing(userId, moduleId) == {}

\* SELECT ... FROM progreso_usuarios WHERE id_usuario = ? AND id_modulo = ?
selectProgress(userId, moduleId) ==
    {r \in Rows(progreso_usuarios) :
        r.id_usuario = userId /\ r.id_modulo = moduleId}

\* isGuest comparing with the wrong kind
isGuest_WrongKind(user) == user.userType = "invitado"

\* isGuest with the guests' short cut left out
isGuest_Never(user) == FALSE

\* req.user.userType === 'guest'
isGuest(user) == user.userType = "guest"

\* requireRegisteredUser: answers 200 [] to a guest instead of calling next()
requireRegisteredUser(user) == user.userType = "guest"

\* percentageInvalid with the upper limit left out
percentageInvalid_NoUpper(completion_percentage) ==
    ~IsUndefined(completion_percentage) /\ JsLt(completion_percentage, 0)

\* completion_percentage !== undefined &&
\*   (completion_percentage < 0 || completion_percentage > 100)
percentageInvalid(completion_percentage) ==
    /\ ~IsUndefined(completion_percentage)
    /\ (JsLt(completion_percentage, 0) \/ JsGt(completion_percentage, 100))

\* timeSpentInvalid with the check left out
timeSpentInvalid_NoCheck(time_spent) == FALSE

\* time_spent !== undefined && time_spent < 0
timeSpentInvalid(time_spent) ==
    ~IsUndefined(time_spent) /\ JsLt(time_spent, 0)

\* score !== undefined && score < 0
scoreInvalid(score) ==
    ~IsUndefined(score) /\ JsLt(score, 0)

\* estaCompletado with > for >=
estaCompletado_Strict(completion_percentage) == JsGt(completion_percentage, 100)

\* esta_completado: completion_percentage >= 100
estaCompletado(completion_percentage) == JsGe(completion_percentage, 100)

\* progressData of PUT /:moduleId
upsertData(completion_percentage, time_spent, score) ==
    [porcentaje_completado |-> JsOrZero(completion_percentage),
     tiempo_empleado |-> JsOrZero(time_spent),
     puntuacion |-> JsOrZero(score),
     esta_completado |-> estaCompletado(completion_percentage),
     ultimo_acceso |-> now]

\* completeData that sets the time spent back to 0
completeData_ResetTime(score) ==
    [porcentaje_completado |-> 100,
     esta_completado |-> TRUE,
     puntuacion |-> JsOrZero(score),
     tiempo_empleado |-> 0,
     ultimo_acceso |-> now]

\* progressData of POST /:moduleId/complete
completeData(score) ==
    [porcentaje_completado |-> 100,
     esta_completado |-> TRUE,
     puntuacion |-> JsOrZero(score),
     ultimo_acceso |-> now]

\* newProgress with the values of a completed module
newProgress_Completed(userId, moduleId) ==
    [id_usuario |-> userId,
     id_modulo |-> moduleId,
     porcentaje_completado |-> 100,
     tiempo_empleado |-> 0,
     esta_completado |-> TRUE,
     puntuacion |-> 0]

\* newProgress of GET /:moduleId
newProgress(userId, moduleId) ==
    [id_usuario |-> userId,
     id_modulo |-> moduleId,
     porcentaje_completado |-> 0,
     tiempo_empleado |-> 0,
     esta_completado |-> FALSE,
     puntuacion |-> 0]

\* the request a progress handler serves
progressReq(op, token, moduleId, completion_percentage, time_spent, score) ==
    [op |-> op, token |-> token, moduleId |-> moduleId,
     completion_percentage |-> completion_percentage,
     time_spent |-> time_spent, score |-> score]

\* res.status(status).json(body)
respond(req, status, body) == req @@ [status |-> status, body |-> body]

\* a request gets the first free slot
freeSlot(i) ==
    /\ inflight[i].pc = "idle"
    /\ \A j \in Slots : j < i => inflight[j].pc # "idle"

\* the handler waits for its first statement on progreso_usuarios
await(i, req, userId) ==
    inflight' = [inflight EXCEPT ![i] =
        [pc |-> "select", req |-> req, userId |-> userId,
         existing |-> NULL, data |-> <<>>, insertId |-> NULL]]

\* GET /:moduleId, up to the SELECT on progreso_usuarios
GetProgress(i, token, moduleId) ==
    LET user == reqUser(token)
        auth == authenticateToken(token)
        req == progressReq("get", token, moduleId, undefined, undefined, undefined)
    IN
    /\ freeSlot(i)
    /\ IF auth # 200
       THEN resp' = respond(req, auth, <<>>) /\ UNCHANGED inflight
       ELSE IF requireRegisteredUser(user)
       THEN resp' = respond(req, 200, <<>>) /\ UNCHANGED inflight
       ELSE IF ~findById(modulos, moduleId)
       THEN resp' = respond(req, 404, <<>>) /\ UNCHANGED inflight
       ELSE await(i, req, user.userId) /\ UNCHANGED resp
    /\ UNCHANGED <<store, tokens, now>>

\* PUT /:moduleId, up to the SELECT on progreso_usuarios
UpsertProgress(i, token, moduleId, completion_percentage, time_spent, score) ==
    LET user == reqUser(token)
        auth == authenticateToken(token)
        req == progressReq("put", token, moduleId, completion_percentage,
                           time_spent, score)
    IN
    /\ freeSlot(i)
    /\ IF auth # 200
       THEN resp' = respond(req, auth, <<>>) /\ UNCHANGED inflight
       ELSE IF isGuest(user)
       THEN resp' = respond(req, 200, <<>>) /\ UNCHANGED inflight
       ELSE IF \/ percentageInvalid(completion_percentage)
               \/ timeSpentInvalid(time_spent)
               \/ scoreInvalid(score)
       THEN resp' = respond(req, 400, <<>>) /\ UNCHANGED inflight
       ELSE IF ~findById(modulos, moduleId)
       THEN resp' = respond(req, 404, <<>>) /\ UNCHANGED inflight
       ELSE await(i, req, user.userId) /\ UNCHANGED resp
    /\ UNCHANGED <<store, tokens, now>>

\* POST /:moduleId/complete, up to the SELECT on progreso_usuarios
CompleteProgress(i, token, moduleId, score) ==
    LET user == reqUser(token)
        auth == authenticateToken(token)
        req == progressReq("complete", token, moduleId, undefined, undefined, score)
    IN
    /\ freeSlot(i)
    /\ IF auth # 200
       THEN resp' = respond(req, auth, <<>>) /\ UNCHANGED inflight
       ELSE IF isGuest(user)
       THEN resp' = respond(req, 200, <<>>) /\ UNCHANGED inflight
       ELSE IF ~findById(modulos, moduleId)
       THEN resp' = respond(req, 404, <<>>) /\ UNCHANGED inflight
       ELSE await(i, req, user.userId) /\ UNCHANGED resp
    /\ UNCHANGED <<store, tokens, now>>

\* SelectExisting that stamps the last access of the row a GET reads
SelectExisting_Touch(i) ==
    LET r == inflight[i]
        rows == selectProgress(r.userId, r.req.moduleId)
        data == CASE r.req.op = "put" ->
                       upsertData(r.req.completion_percentage, r.req.time_spent,
                                  r.req.score)
                  [] r.req.op = "complete" -> completeData(r.req.score)
                  [] OTHER -> newProgress(r.userId, r.req.moduleId)
    IN
    /\ r.pc = "select"
    /\ IF rows = {}
       THEN /\ inflight' = [inflight EXCEPT ![i].pc = "write", ![i].data = data]
            /\ UNCHANGED <<resp, progreso_usuarios>>
       ELSE \E row \in rows :
            IF r.req.op = "get"
            THEN /\ resp' = respond(r.req, 200, <<row>>)
                 /\ inflight' = [inflight EXCEPT ![i] = Idle]
                 /\ progreso_usuarios' =
                       update(progreso_usuarios, "id_progreso", row.id_progreso,
                              [ultimo_acceso |-> now])
            ELSE /\ inflight' = [inflight EXCEPT ![i].pc = "write",
                                                 ![i].data = data,
                                                 ![i].existing = row.id_progreso]
                 /\ UNCHANGED <<resp, progreso_usuarios>>
    /\ UNCHANGED <<usuarios, sesiones_invitados, resultados_juegos, tokens, now>>

\* the SELECT of the existing rows returns; rows[0] is any of the rows matching
SelectExisting(i) ==
    LET r == inflight[i]
        rows == selectProgress(r.userId, r.req.moduleId)
        data == CASE r.req.op = "put" ->
                       upsertData(r.req.completion_percentage, r.req.time_spent,
                                  r.req.score)
                  [] r.req.op = "complete" -> completeData(r.req.score)
                  [] OTHER -> newProgress(r.userId, r.req.moduleId)
    IN
    /\ r.pc = "select"
    /\ IF rows = {}
       THEN /\ inflight' = [inflight EXCEPT ![i].pc = "write", ![i].data = data]
            /\ UNCHANGED resp
       ELSE \E row \in rows :
            IF r.req.op = "get"
            THEN /\ resp' = respond(r.req, 200, <<row>>)
                 /\ inflight' = [inflight EXCEPT ![i] = Idle]
            ELSE /\ inflight' = [inflight EXCEPT ![i].pc = "write",
                                                 ![i].data = data,
                                                 ![i].existing = row.id_progreso]
                 /\ UNCHANGED resp
    /\ UNCHANGED <<store, tokens, now>>

\* the INSERT or UPDATE the handler decided on is executed
WriteProgress(i) ==
    LET r == inflight[i] IN
    /\ r.pc = "write"
    /\ IF r.existing = NULL
       THEN /\ Len(progreso_usuarios) < MaxProgress
            /\ progreso_usuarios' =
                  insertProgress(progreso_usuarios,
                      [id_usuario |-> r.userId, id_modulo |-> r.req.moduleId]
                      @@ r.data
                      @@ [tiempo_empleado |-> 0])
            /\ inflight' = [inflight EXCEPT ![i].pc = "reselect",
                               ![i].insertId = insertId(progreso_usuarios)]
       ELSE /\ progreso_usuarios' =
                  update(progreso_usuarios, "id_progreso", r.existing, r.data)
            /\ inflight' = [inflight EXCEPT ![i].pc = "reselect"]
    /\ UNCHANGED <<usuarios, sesiones_invitados, resultados_juegos, tokens, now,
                   resp>>

\* the final SELECT returns and the response is sent
Reselect(i) ==
    LET r == inflight[i]
        rows == IF r.req.op = "get"
                THEN {x \in Rows(progreso_usuarios) : x.id_progreso = r.insertId}
                ELSE selectProgress(r.userId, r.req.moduleId)
    IN
    /\ r.pc = "reselect"
    /\ \E row \in rows : resp' = respond(r.req, 200, <<row>>)
    /\ inflight' = [inflight EXCEPT ![i] = Idle]
    /\ UNCHANGED <<store, tokens, now>>

\* the gameResult object POST /result builds, before the store keys it
gameResult(user, gameType, score, levelReached, timePlayed, metadata) ==
    [id_usuario |-> resultIdUsuario(user),
     id_sesion_invitado |-> resultIdSesionInvitado(user),
     tipo_juego |-> gameType[1],
     puntuacion |-> score[1],
     nivel_alcanzado |-> levelReached[1],
     tiempo_jugado |-> timePlayed[1],
     metadatos |-> resultMetadatos(metadata),
     fecha_juego |-> now]

\* POST /result up to `await insert(...)`, while the table and the requests
\* waiting on it hold fewer than cap rows
SubmitResult(i, cap, token, gameType, score, levelReached, timePlayed, metadata) ==
    LET user == reqUser(token)
        auth == authenticateToken(token)
        req == [op |-> "result", token |-> token, gameType |-> gameType,
                score |-> score, levelReached |-> levelReached,
                timePlayed |-> timePlayed]
    IN
    /\ freeSlot(i)
    /\ IF auth # 200
       THEN resp' = req @@ [status |-> auth] /\ UNCHANGED inflight
       ELSE IF resultIncomplete(gameType, score, levelReached, timePlayed)
       THEN resp' = req @@ [status |-> 400] /\ UNCHANGED inflight
       ELSE IF resultInvalid(score, levelReached, timePlayed)
       THEN resp' = req @@ [status |-> 400] /\ UNCHANGED inflight
       ELSE /\ Len(resultados_juegos)
                 + Cardinality({j \in Slots : inflight[j].pc = "insert"}) < cap
            /\ inflight' = [inflight EXCEPT ![i] =
                  [pc |-> "insert", req |-> req,
                   row |-> gameResult(user, gameType, score, levelReached,
                                      timePlayed, metadata)]]
            /\ UNCHANGED resp
    /\ UNCHANGED <<store, tokens, now>>

\* the INSERT of a waiting POST /result that is lost when another
\* POST /result is waiting
InsertResult_Lost(i) ==
    LET r == inflight[i]
        id == insertId(resultados_juegos)
    IN
    /\ r.pc = "insert"
    /\ resultados_juegos' =
          IF \E j \in Slots \ {i} : inflight[j].pc = "insert"
          THEN resultados_juegos
          ELSE insertRow(resultados_juegos, [id_resultado |-> id] @@ r.row)
    /\ resp' = r.req @@ [status |-> 201, resultId |-> id]
    /\ inflight' = [inflight EXCEPT ![i] = Idle]
    /\ UNCHANGED <<usuarios, sesiones_invitados, progreso_usuarios, tokens, now>>

\* the INSERT of a waiting POST /result runs, the store keys the row, and the
\* response is sent
InsertResult(i) ==
    LET r == inflight[i]
        id == insertId(resultados_juegos)
    IN
    /\ r.pc = "insert"
    /\ resultados_juegos' =
          insertRow(resultados_juegos, [id_resultado |-> id] @@ r.row)
    /\ resp' = r.req @@ [status |-> 201, resultId |-> id]
    /\ inflight' = [inflight EXCEPT ![i] = Idle]
    /\ UNCHANGED <<usuarios, sesiones_invitados, progreso_usuarios, tokens, now>>

\* POST /register up to the SELECT of findByField: the validation
SubmitRegister(i, name, emailIn, password) ==
    LET email == normalizeEmail(emailIn)
        req == [op |-> "register", name |-> name, email |-> emailIn]
    IN
    /\ freeSlot(i)
    /\ IF ~registerValid(name, email, password)
       THEN resp' = req @@ [status |-> 400] /\ UNCHANGED inflight
       ELSE /\ inflight' = [inflight EXCEPT ![i] =
                  [pc |-> "findByField", req |-> req, name |-> name,
                   email |-> email, password |-> password]]
            /\ UNCHANGED resp
    /\ UNCHANGED <<store, tokens, now>>

\* existingUser = await findByField('usuarios', 'correo_electronico', ...),
\* then bcrypt.hash, up to the INSERT
FindExistingUser(i) ==
    LET r == inflight[i]
        existingUser == findByField(usuarios, "correo_electronico",
                                    toLowerCase(r.email))
    IN
    /\ r.pc = "findByField"
    /\ IF existingUser # {}
       THEN /\ resp' = r.req @@ [status |-> 409]
            /\ inflight' = [inflight EXCEPT ![i] = Idle]
       ELSE /\ inflight' = [inflight EXCEPT ![i].pc = "insertUser"]
            /\ UNCHANGED resp
    /\ UNCHANGED <<store, tokens, now>>

\* result = await insert('usuarios', userData), the token and the response.
\* When a row with the email has appeared since the SELECT, the store either
\* takes the second row (no unique index on correo_electronico) or rejects
\* it (unique index), and the handler's catch answers 500
InsertUser(i) ==
    LET r == inflight[i]
        id == insertId(usuarios)
        userData == [id_usuario |-> id,
                     nombre |-> trim(r.name),
                     correo_electronico |-> toLowerCase(r.email),
                     contrasena |-> bcryptHash(r.password),
                     tipo_usuario |-> "estudiante",
                     fecha_creacion |-> now,
                     esta_activo |-> TRUE,
                     ultimo_inicio_sesion |-> NULL]
        token == jwtSign([userId |-> id, guestId |-> NULL, sessionId |-> NULL,
                          email |-> toLowerCase(r.email), username |-> "",
                          userType |-> "student"], UserTokenTTL)
        clash == findByField(usuarios, "correo_electronico",
                             toLowerCase(r.email)) # {}
    IN
    /\ r.pc = "insertUser"
    /\ inflight' = [inflight EXCEPT ![i] = Idle]
    /\ \/ /\ Len(usuarios) < MaxUsers + 1
          /\ Cardinality(tokens \cup {token}) <= MaxTokens
          /\ usuarios' = insertRow(usuarios, userData)
          /\ tokens' = tokens \cup {token}
          /\ resp' = r.req @@ [status |-> 201, id |-> id, token |-> token]
       \/ /\ clash
          /\ resp' = r.req @@ [status |-> 500]
          /\ UNCHANGED <<usuarios, tokens>>
    /\ UNCHANGED <<sesiones_invitados, progreso_usuarios, resultados_juegos, now>>

(***************************************************************************)
(* config/database.js: transaction(callback).  Each awaited call of the    *)
(* connection is a step that succeeds or throws; the slot keeps what has   *)
(* happened on the connection so far.                                      *)
(***************************************************************************)
\* transaction(callback) is called: it waits for pool.getConnection()
transaction(i) ==
    /\ freeSlot(i)
    /\ inflight' = [inflight EXCEPT ![i] =
          [pc |-> "getConnection", acquired |-> FALSE, failed |-> "",
           committed |-> FALSE, rollbackCalled |-> FALSE, rolledBack |-> FALSE,
           released |-> 0, outcome |-> ""]]
    /\ UNCHANGED <<store, tokens, now, resp>>

\* what the caller of transaction sees, with what happened on the connection
settle(i, r) ==
    /\ resp' = [op |-> "transaction", status |-> 0, outcome |-> r.outcome,
                acquired |-> r.acquired, failed |-> r.failed,
                committed |-> r.committed, rollbackCalled |-> r.rollbackCalled,
                rolledBack |-> r.rolledBack, released |-> r.released]
    /\ inflight' = [inflight EXCEPT ![i] = Idle]

\* const connection = await pool.getConnection(), outside the try
getConnection(i, ok) ==
    LET r == inflight[i] IN
    /\ r.pc = "getConnection"
    /\ IF ok
       THEN /\ inflight' = [inflight EXCEPT ![i].pc = "beginTransaction",
                                            ![i].acquired = TRUE]
            /\ UNCHANGED resp
       ELSE settle(i, [r EXCEPT !.failed = "getConnection",
                                !.outcome = "rejected"])
    /\ UNCHANGED <<store, tokens, now>>

\* await connection.beginTransaction()
beginTransaction(i, ok) ==
    /\ inflight[i].pc = "beginTransaction"
    /\ inflight' = IF ok THEN [inflight EXCEPT ![i].pc = "callback"]
                   ELSE [inflight EXCEPT ![i].pc = "rollback",
                                         ![i].failed = "beginTransaction"]
    /\ UNCHANGED <<store, tokens, now, resp>>

\* const result = await callback(connection)
callback(i, ok) ==
    /\ inflight[i].pc = "callback"
    /\ inflight' = IF ok THEN [inflight EXCEPT ![i].pc = "commit"]
                   ELSE [inflight EXCEPT ![i].pc = "rollback",
                                         ![i].failed = "callback"]
    /\ UNCHANGED <<store, tokens, now, resp>>

\* a commit whose failure is swallowed: the result is returned all the same
commit_Swallowed(i, ok) ==
    /\ inflight[i].pc = "commit"
    /\ inflight' = IF ok THEN [inflight EXCEPT ![i].pc = "release",
                                               ![i].committed = TRUE,
                                               ![i].outcome = "resolved"]
                   ELSE [inflight EXCEPT ![i].pc = "release",
                                         ![i].failed = "commit",
                                         ![i].outcome = "resolved"]
    /\ UNCHANGED <<store, tokens, now, resp>>

\* await connection.commit(); return result (the finally block runs next)
commit(i, ok) ==
    /\ inflight[i].pc = "commit"
    /\ inflight' = IF ok THEN [inflight EXCEPT ![i].pc = "release",
                                               ![i].committed = TRUE,
                                               ![i].outcome = "resolved"]
                   ELSE [inflight EXCEPT ![i].pc = "rollback",
                                         ![i].failed = "commit"]
    /\ UNCHANGED <<store, tokens, now, resp>>

\* catch: await connection.rollback(); throw error.  When rollback throws,
\* its error leaves the catch block in place of the first one
rollback(i, ok) ==
    /\ inflight[i].pc = "rollback"
    /\ inflight' = IF ok THEN [inflight EXCEPT ![i].pc = "release",
                                               ![i].rollbackCalled = TRUE,
                                               ![i].rolledBack = TRUE,
                                               ![i].outcome = "rejected"]
                   ELSE [inflight EXCEPT ![i].pc = "release",
                                         ![i].rollbackCalled = TRUE,
                                         ![i].outcome = "rejected"]
    /\ UNCHANGED <<store, tokens, now, resp>>

\* finally: connection.release(), then the caller gets the result or the error
release(i) ==
    LET r == inflight[i] IN
    /\ r.pc = "release"
    /\ settle(i, [r EXCEPT !.released = r.released + 1])
    /\ UNCHANGED <<store, tokens, now>>

(***************************************************************************)
(* Specifications.  Each takes the handlers of one part of the system and  *)
(* draws their inputs from the sets that part's properties are about.      *)
(***************************************************************************)
ValidResults == {<<Val("snake"), Val(5), Val(1), Val(4)>>}

\* the guest sessions over time: creation, validation, logout, and the
\* guest-scoped handlers
NextSession ==
    \/ \E n \in Names, e \in {"a@x.com"}, p \in Passwords : Register(n, e, p)
    \/ \E u \in {Val("Bob")} : CreateGuest(u)
    \/ \E t \in Presented : Verify(t)
    \/ \E t \in Presented : Logout(t)
    \/ \E t \in Presented : Profile(t)
    \/ \E t \in Presented, r \in ValidResults :
          RecordResult(t, r[1], r[2], r[3], r[4], undefined)
    \/ \E t \in Presented : PersonalBest(t, "snake")
    \/ Tick

SpecSession == Init /\ [][NextSession]_vars

\* the game results: every identity, every input
NextGames ==
    \/ \E n \in Names, e \in Emails, p \in Passwords : Register(n, e, p)
    \/ \E e \in Emails, p \in Passwords : Login(e, p)
    \/ \E u \in Usernames : CreateGuest(u)
    \/ \E t \in Presented, g \in GameTypes, s \in Scores, l \in Levels,
          d \in Times, m \in Metadatas : RecordResult(t, g, s, l, d, m)

SpecGames == Init /\ [][NextGames]_vars

\* the progress handlers one request at a time: every identity, every
\* percentage, an existing and a missing module
NextProgress ==
    \/ \E n \in Names, e \in {"a@x.com"}, p \in Passwords : Register(n, e, p)
    \/ \E u \in {Val("Bob")} : CreateGuest(u)
    \/ \E t \in Presented, m \in ModuleIds : GetProgress(1, t, m)
    \/ \E t \in Presented, m \in ModuleIds, p \in Percentages :
          UpsertProgress(1, t, m, p, Val(3), Val(7))
    \/ \E t \in Presented, m \in ModuleIds : CompleteProgress(1, t, m, undefined)
    \/ SelectExisting(1)
    \/ WriteProgress(1)
    \/ Reselect(1)

SpecProgress == Init /\ [][NextProgress]_vars

\* the progress handlers of one registered user on one module, interleaved
\* statement by statement
RacePercentages == {undefined, Val(99), Val(100)}

NextRace ==
    \/ \E n \in Names, e \in {"a@x.com"}, p \in Passwords : Register(n, e, p)
    \/ \E i \in Slots, t \in tokens : GetProgress(i, t, 1)
    \/ \E i \in Slots, t \in tokens, p \in RacePercentages :
          UpsertProgress(i, t, 1, p, Val(3), Val(7))
    \/ \E i \in Slots, t \in tokens : CompleteProgress(i, t, 1, undefined)
    \/ \E i \in Slots : SelectExisting(i)
    \/ \E i \in Slots : WriteProgress(i)
    \/ \E i \in Slots : Reselect(i)

SpecRace == Init /\ [][NextRace]_vars

\* concurrent upserts alone
NextUpsert ==
    \/ \E n \in Names, e \in {"a@x.com"}, p \in Passwords : Register(n, e, p)
    \/ \E i \in Slots, t \in tokens, p \in RacePercentages :
          UpsertProgress(i, t, 1, p, Val(3), Val(7))
    \/ \E i \in Slots : SelectExisting(i)
    \/ \E i \in Slots : WriteProgress(i)
    \/ \E i \in Slots : Reselect(i)

SpecUpsert == Init /\ [][NextUpsert]_vars

\* the leaderboard over the results of a registered user and of a guest: the
\* example of the ordering, a result of another game, and a tie between the
\* two players
BoardResults == {<<Val("snake"), Val(10), Val(2), Val(50)>>,
                 <<Val("snake"), Val(10), Val(2), Val(30)>>,
                 <<Val("snake"), Val(15), Val(1), Val(99)>>,
                 <<Val("pong"), Val(10), Val(2), Val(30)>>}
BoardGames == {"snake", "pong"}
\* the result a guest plays, tying with one of the registered user's
BoardTie == <<Val("snake"), Val(10), Val(2), Val(30)>>

NextBoard ==
    \/ \E n \in Names, e \in {"a@x.com"}, p \in Passwords : Register(n, e, p)
    \/ \E u \in {Val("Bob")} : CreateGuest(u)
    \/ \E t \in tokens, r \in BoardResults :
          /\ t.userType = "guest" => r = BoardTie
          /\ RecordResultUpTo(MaxBoard, t, r[1], r[2], r[3], r[4], undefined)
    \/ \E g \in BoardGames, l \in LimitInputs : Leaderboard(g, l)

SpecBoard == Init /\ [][NextBoard]_vars

\* the result a guest plays that beats every result of the registered user
BestOther == <<Val("snake"), Val(20), Val(1), Val(5)>>

\* the personal bests of a registered user and of a guest with the same key
NextBest ==
    \/ \E n \in Names, e \in {"a@x.com"}, p \in Passwords : Register(n, e, p)
    \/ \E u \in {Val("Bob")} : CreateGuest(u)
    \/ \E t \in tokens, r \in BoardResults \cup {BestOther} :
          /\ t.userType = "guest" <=> r = BestOther
          /\ RecordResultUpTo(MaxBoard, t, r[1], r[2], r[3], r[4], undefined)
    \/ \E t \in Presented, g \in BoardGames : PersonalBest(t, g)

SpecBest == Init /\ [][NextBest]_vars

\* the results two players submit at the same time
RaceResults == {<<Val("snake"), Val(5), Val(1), Val(4)>>,
                <<Val("snake"), Val(9), Val(2), Val(7)>>,
                <<Val("snake"), Val(-1), Val(1), Val(4)>>}

\* POST /result from a registered user and from a guest, each INSERT a step
\* of its own
NextResults ==
    \/ \E n \in Names, e \in {"a@x.com"}, p \in Passwords : Register(n, e, p)
    \/ \E u \in {Val("Bob")} : CreateGuest(u)
    \/ \E i \in Slots, t \in Presented, r \in RaceResults :
          SubmitResult(i, MaxResults + 1, t, r[1], r[2], r[3], r[4], undefined)
    \/ \E i \in Slots : InsertResult(i)

SpecResults == Init /\ [][NextResults]_vars

\* transactions on the pool, each call of the connection succeeding or not
NextTransaction ==
    \/ \E i \in Slots : transaction(i)
    \/ \E i \in Slots, ok \in BOOLEAN : getConnection(i, ok)
    \/ \E i \in Slots, ok \in BOOLEAN : beginTransaction(i, ok)
    \/ \E i \in Slots, ok \in BOOLEAN : callback(i, ok)
    \/ \E i \in Slots, ok \in BOOLEAN : commit(i, ok)
    \/ \E i \in Slots, ok \in BOOLEAN : rollback(i, ok)
    \/ \E i \in Slots : release(i)

SpecTransaction == Init /\ [][NextTransaction]_vars

\* registrations at the same time, each statement on usuarios a step
NextRegister ==
    \/ \E i \in Slots, n \in Names \cup {"A"}, e \in Emails, p \in Passwords :
          SubmitRegister(i, n, e, p)
    \/ \E i \in Slots : FindExistingUser(i)
    \/ \E i \in Slots : InsertUser(i)
    \/ Tick

SpecRegister == Init /\ [][NextRegister]_vars

\* the leaderboard of a registered user's and a guest's results, one of
\* each player, over the life of the guest session
NextNames ==
    \/ \E n \in Names, e \in {"a@x.com"}, p \in Passwords : Register(n, e, p)
    \/ \E u \in {Val("Bob")} : CreateGuest(u)
    \/ \E t \in tokens, r \in ValidResults :
          /\ ownResults(reqUser(t), r[1][1]) = {}
          /\ RecordResultUpTo(MaxResults + 1, t, r[1], r[2], r[3], r[4], undefined)
    \/ \E t \in tokens : t.userType = "guest" /\ Logout(t)
    \/ \E l \in {undefined} : Leaderboard("snake", l)
    \/ Tick

SpecNames == Init /\ [][NextNames]_vars

\* a guest session from creation to invalidation and after, with every kind
\* of operation of the system going on: the guest plays and is verified, the
\* registered user completes a module, both log out; the clock starts with
\* the session
NextInvalidate ==
    \/ \E n \in Names, e \in {"a@x.com"}, p \in Passwords : Register(n, e, p)
    \/ \E e \in {"a@x.com"}, p \in Passwords : Login(e, p)
    \/ \E u \in {Val("Bob")} : CreateGuest(u)
    \/ \E t \in tokens : t.userType = "guest" /\ Verify(t)
    \/ \E t \in tokens : Logout(t)
    \/ \E t \in tokens, r \in ValidResults :
          /\ t.userType = "guest"
          /\ RecordResult(t, r[1], r[2], r[3], r[4], undefined)
    \/ \E t \in tokens : t.userType # "guest" /\ CompleteProgress(1, t, 1, undefined)
    \/ SelectExisting(1)
    \/ WriteProgress(1)
    \/ Reselect(1)
    \/ sesiones_invitados # <<>> /\ Tick

SpecInvalidate == Init /\ [][NextInvalidate]_vars

\* two registered users working on a module in turn, beside a guest and a
\* game result
NextFrame ==
    \/ \E n \in Names, e \in {"a@x.com", "b@x.com"}, p \in Passwords :
          RegisterUpTo(MaxUsers + 1, MaxTokens + 1, n, e, p)
    \/ \E u \in {Val("Bob")} : CreateGuest(u)
    \/ \E t \in tokens, r \in ValidResults :
          RecordResult(t, r[1], r[2], r[3], r[4], undefined)
    \/ \E t \in tokens : GetProgress(1, t, 1)
    \/ \E t \in tokens : UpsertProgress(1, t, 1, Val(99), Val(3), Val(7))
    \/ \E t \in tokens : CompleteProgress(1, t, 1, undefined)
    \/ SelectExisting(1)
    \/ WriteProgress(1)
    \/ Reselect(1)

SpecFrame == Init /\ [][NextFrame]_vars

\* the results the registered user plays, of two games
ApartResults == {<<Val("snake"), Val(10), Val(2), Val(50)>>,
                 <<Val("pong"), Val(15), Val(1), Val(99)>>}

\* a registered user and a guest with the same key play, read their personal
\* bests and statistics, and log out
NextApart ==
    \/ \E n \in Names, e \in {"a@x.com"}, p \in Passwords : Register(n, e, p)
    \/ \E u \in {Val("Bob")} : CreateGuest(u)
    \/ \E t \in tokens, r \in ApartResults \cup {BestOther} :
          /\ t.userType = "guest" <=> r = BestOther
          /\ RecordResultUpTo(MaxBoard, t, r[1], r[2], r[3], r[4], undefined)
    \/ \E t \in tokens, g \in BoardGames : PersonalBest(t, g)
    \/ \E t \in tokens : Stats(t)
    \/ \E t \in tokens : Logout(t)

SpecApart == Init /\ [][NextApart]_vars

\* a registered user writes and reads the progress of a module over time
NextRead ==
    \/ \E n \in Names, e \in {"a@x.com"}, p \in Passwords : Register(n, e, p)
    \/ \E t \in tokens : GetProgress(1, t, 1)
    \/ \E t \in tokens : UpsertProgress(1, t, 1, Val(99), Val(3), Val(7))
    \/ SelectExisting(1)
    \/ WriteProgress(1)
    \/ Reselect(1)
    \/ Tick

SpecRead == Init /\ [][NextRead]_vars

\* the progress handlers one request at a time, over every time spent and
\* score, a valid and an invalid percentage, an existing and a missing module
CheckedPercentages == {undefined, Val(50), Val(101)}

NextValidation ==
    \/ \E n \in Names, e \in {"a@x.com"}, p \in Passwords : Register(n, e, p)
    \/ \E u \in {Val("Bob")} : CreateGuest(u)
    \/ \E t \in tokens, m \in ModuleIds : GetProgress(1, t, m)
    \/ \E t \in tokens, m \in ModuleIds, p \in CheckedPercentages,
          d \in TimesSpent, s \in ProgressScores : UpsertProgress(1, t, m, p, d, s)
    \/ \E t \in tokens, m \in ModuleIds, s \in ProgressScores :
          CompleteProgress(1, t, m, s)
    \/ SelectExisting(1)
    \/ WriteProgress(1)
    \/ Reselect(1)

SpecValidation == Init /\ [][NextValidation]_vars

\* everything that touches or reads the game results, beside the progress
\* handlers and the sessions, with room for a second result
NextAppend ==
    \/ \E n \in Names, e \in {"a@x.com"}, p \in Passwords : Register(n, e, p)
    \/ \E u \in {Val("Bob")} : CreateGuest(u)
    \/ \E t \in tokens, r \in ValidResults :
          RecordResultUpTo(MaxResults + 1, t, r[1], r[2], r[3], r[4], undefined)
    \/ \E l \in {undefined} : Leaderboard("snake", l)
    \/ \E t \in tokens : PersonalBest(t, "snake")
    \/ \E t \in tokens : Stats(t)
    \/ \E t \in tokens : Logout(t)
    \/ \E t \in tokens : GetProgress(1, t, 1)
    \/ \E t \in tokens : UpsertProgress(1, t, 1, Val(100), Val(3), Val(7))
    \/ \E t \in tokens : CompleteProgress(1, t, 1, undefined)
    \/ SelectExisting(1)
    \/ WriteProgress(1)
    \/ Reselect(1)

SpecAppend == Init /\ [][NextAppend]_vars

\* the identities: every way to get a token, every token a caller can
\* present, over time
NextIdentity ==
    \/ \E n \in Names, e \in {"a@x.com"}, p \in Passwords : Register(n, e, p)
    \/ \E e \in Emails, p \in Passwords : Login(e, p)
    \/ \E u \in GuestNames : CreateGuest(u)
    \/ \E t \in Presented \cup OtherSigned : Authenticate(t)
    \/ Tick

SpecIdentity == Init /\ [][NextIdentity]_vars

\* the whole system
Next ==
    \/ NextSession \/ NextGames \/ NextProgress \/ NextRace \/ NextUpsert
    \/ NextBoard \/ NextAppend \/ NextValidation \/ NextIdentity \/ NextBest
    \/ NextResults \/ NextTransaction \/ NextRegister
    \/ NextNames \/ NextInvalidate \/ NextFrame
    \/ NextApart \/ NextRead

Spec == Init /\ [][Next]_vars

(***************************************************************************)
(* Properties.                                                             *)
(***************************************************************************)
\* the tokens a guest-session creation has issued
GuestTokens == {t \in tokens : t.userType = "guest"}
\* the tokens a registration or a login has issued
UserTokens == {t \in tokens : t.userType # "guest"}
\* the Progress rows of user u for module m
ProgressOf(u, m) ==
    {i \in 1..Len(progreso_usuarios) :
        progreso_usuarios[i].id_usuario = u /\ progreso_usuarios[i].id_modulo = m}

\* C1: for every registered user u and module m, after any interleaving of
\* concurrent upsertProgress calls for (u, m), each a look-up step followed
\* later by an insert-or-update step, the progress store holds at most one
\* row for (u, m).
C1_UpsertsKeepOneRow ==
    \A u \in 1..MaxUsers, m \in ModuleIds : Cardinality(ProgressOf(u, m)) <= 1

\* a row as getProgress creates it
IsLazilyCreated(r) ==
    /\ r.porcentaje_completado = 0
    /\ r.tiempo_empleado = 0
    /\ r.puntuacion = 0
    /\ ~r.esta_completado

\* C2: for every registered user u and module m, a getProgress call that
\* lazily creates the row, running concurrently with another getProgress,
\* upsertProgress or completeProgress call for the same (u, m), never leaves
\* more than one Progress row for (u, m).
C2_LazyCreateKeepsOneRow ==
    \A u \in 1..MaxUsers, m \in ModuleIds :
        (\E i \in ProgressOf(u, m) : IsLazilyCreated(progreso_usuarios[i]))
            => Cardinality(ProgressOf(u, m)) <= 1

\* C3: in every reachable state every stored Progress row has
\* completed = (percentage >= 100), whatever getProgress, upsertProgress and
\* completeProgress calls produced it; an upsert with percentage 100 stores
\* completed = true and one with percentage 99 stores completed = false.
C3_CompletedIffHundred ==
    \A r \in Rows(progreso_usuarios) :
        r.esta_completado = (r.porcentaje_completado >= 100)

\* C3's case: an upsert with percentage 100 was answered with the row it
\* wrote, stored as completed
C3_Witness ==
    /\ resp.op = "put"
    /\ resp.completion_percentage = Val(100)
    /\ resp.status = 200
    /\ resp.body # <<>>
    /\ resp.body[1] \in Rows(progreso_usuarios)
    /\ resp.body[1].porcentaje_completado = 100
    /\ resp.body[1].esta_completado

\* C4: for a registered user, upsertProgress with percentage < 0 or
\* percentage > 100 fails with a ValidationError (400) and the progress store
\* is the same before and after the call.
C4_OutOfRangePercentageRejected ==
    [][\A t \in UserTokens, m \in ModuleIds, p \in Percentages :
          (/\ UpsertProgress(1, t, m, p, Val(3), Val(7))
           /\ p # undefined
           /\ (p[1] < 0 \/ p[1] > 100))
          => /\ resp' = respond(progressReq("put", t, m, p, Val(3), Val(7)), 400, <<>>)
             /\ progreso_usuarios' = progreso_usuarios
             /\ inflight' = inflight]_vars

\* C4's case: an upsert of percentage 101 by a registered user was answered
\* 400 while the user has a row
C4_Witness ==
    /\ resp.op = "put"
    /\ resp.token \in UserTokens
    /\ resp.completion_percentage = Val(101)
    /\ resp.status = 400
    /\ progreso_usuarios # <<>>

\* C5: no Progress row is attributed to a guest identity: every row belongs
\* to a registered user, every getProgress, upsertProgress and
\* completeProgress call made with a token of a guest session leaves the
\* progress store unchanged, and the call is answered at once with no stored
\* row.
C5_GuestsNeverPersistProgress ==
    /\ [](\A r \in Rows(progreso_usuarios) :
             \E u \in Rows(usuarios) : u.id_usuario = r.id_usuario)
    /\ [][\A t \in GuestTokens, m \in ModuleIds, p \in Percentages :
            /\ GetProgress(1, t, m) =>
                 /\ progreso_usuarios' = progreso_usuarios
                 /\ inflight' = inflight
                 /\ resp'.op = "get" /\ resp'.status = 200 /\ resp'.body = <<>>
            /\ UpsertProgress(1, t, m, p, Val(3), Val(7)) =>
                 /\ progreso_usuarios' = progreso_usuarios
                 /\ inflight' = inflight
                 /\ resp'.op = "put" /\ resp'.status = 200 /\ resp'.body = <<>>
            /\ CompleteProgress(1, t, m, undefined) =>
                 /\ progreso_usuarios' = progreso_usuarios
                 /\ inflight' = inflight
                 /\ resp'.op = "complete" /\ resp'.status = 200
                 /\ resp'.body = <<>>]_vars

\* C5's case: a guest's getProgress was answered with no row while the store
\* holds a registered user's row
C5_Witness ==
    /\ resp.op = "get"
    /\ resp.token \in GuestTokens
    /\ resp.status = 200
    /\ resp.body = <<>>
    /\ progreso_usuarios # <<>>

\* C6: a guest session validates successfully at the time it is created,
\* while still active, and validation fails at every time
\* t >= createdAt + 1 hour, the expiry instant included.
C6_GuestSessionValidForOneHour ==
    \A g \in Rows(sesiones_invitados), t \in GuestTokens :
        t.guestId = g.id_sesion_invitado =>
            /\ (now = g.fecha_creacion /\ g.esta_activo) => verifyStatus(t) = 200
            /\ now >= g.fecha_creacion + TicksPerHour => verifyStatus(t) # 200

\* C6's case: at the expiry instant a validation of a session nobody logged
\* out was refused
C6_Witness ==
    \E g \in Rows(sesiones_invitados) :
        /\ g.esta_activo
        /\ now = g.fecha_creacion + TicksPerHour
        /\ resp.op = "verify"
        /\ resp.token \in GuestTokens
        /\ resp.token.guestId = g.id_sesion_invitado
        /\ resp.status # 200

\* the guest session of a token is active and not expired
SessionUsable(t) ==
    \E g \in Rows(sesiones_invitados) :
        /\ g.id_sesion_invitado = t.guestId
        /\ g.esta_activo
        /\ now < g.fecha_expiracion

\* C7: a guest session is usable only while it is active and unexpired:
\* every guest-scoped operation (recording a game result, reading personal
\* best, reading the profile) presented with the token of a session that
\* logout has invalidated, or whose expires-at has passed, is rejected and
\* does not write to the store.
C7_UnusableSessionRejected ==
    [][\A t \in GuestTokens : ~SessionUsable(t) =>
          /\ (\E r \in ValidResults :
                RecordResult(t, r[1], r[2], r[3], r[4], undefined))
                => (resp'.status \notin {200, 201} /\ store' = store)
          /\ PersonalBest(t, "snake")
                => (resp'.status \notin {200, 201} /\ store' = store)
          /\ Profile(t)
                => (resp'.status \notin {200, 201} /\ store' = store)]_vars

\* C8: every stored GameResult row has exactly one of user id and guest
\* session id set; a record by a registered identity sets only the user id,
\* a record by a guest identity sets only the guest session id.
C8_ExactlyOneOwner ==
    /\ \A r \in Rows(resultados_juegos) :
          (r.id_usuario = NULL) # (r.id_sesion_invitado = NULL)
    /\ (resp.op = "result" /\ resp.status = 201) =>
          LET r == resultados_juegos[resp.resultId] IN
          IF resp.token.userType = "guest"
          THEN r.id_usuario = NULL /\ r.id_sesion_invitado = resp.token.guestId
          ELSE r.id_usuario = resp.token.userId /\ r.id_sesion_invitado = NULL

\* C8's case: a guest's record was answered 201 and its row is stored with
\* the guest session id alone
C8_Witness ==
    /\ resp.op = "result"
    /\ resp.status = 201
    /\ resp.token \in GuestTokens
    /\ resultados_juegos[resp.resultId].id_usuario = NULL
    /\ resultados_juegos[resp.resultId].id_sesion_invitado = resp.token.guestId

\* C9: recordGameResult fails with a ValidationError (400) and inserts no
\* row whenever gameType is empty or missing, score < 0, levelReached < 1 or
\* timePlayed < 0.
C9_InvalidResultRejected ==
    /\ [](/\ resp.op = "result"
          /\ resp.token \in tokens
          /\ \/ resp.gameType = undefined \/ resp.gameType = Val("")
             \/ (resp.score # undefined /\ resp.score[1] < 0)
             \/ resp.levelReached[1] < 1
             \/ resp.timePlayed[1] < 0
          => resp.status = 400)
    /\ [][(resp'.op = "result" /\ resp'.status = 400)
             => resultados_juegos' = resultados_juegos]_vars

\* C9's case: a result whose only fault is a negative score was answered 400
C9_Witness ==
    /\ resp.op = "result"
    /\ resp.token \in tokens
    /\ resp.gameType = Val("snake")
    /\ resp.score = Val(-1)
    /\ resp.levelReached = Val(1)
    /\ resp.timePlayed = Val(4)
    /\ resp.status = 400

\* C10: recordGameResult succeeds (201) and inserts a row for every input
\* with non-empty gameType, score >= 0, levelReached >= 1 and
\* timePlayed >= 0, the boundary inputs score = 0 and timePlayed = 0
\* included.
C10_ValidResultAccepted ==
    (/\ resp.op = "result"
     /\ resp.token \in tokens
     /\ resp.gameType \notin {undefined, Val("")}
     /\ resp.score # undefined /\ resp.score[1] >= 0
     /\ resp.levelReached[1] >= 1
     /\ resp.timePlayed[1] >= 0)
    => /\ resp.status = 201
       /\ resp.resultId \in 1..Len(resultados_juegos)

\* the ordering key of a stored result
KeyOf(i) ==
    <<resultados_juegos[i].puntuacion, resultados_juegos[i].nivel_alcanzado,
      resultados_juegos[i].tiempo_jugado>>
\* key a ranks above key b: higher score, then higher level, then less time
RanksAbove(a, b) ==
    \/ a[1] > b[1]
    \/ a[1] = b[1] /\ a[2] > b[2]
    \/ a[1] = b[1] /\ a[2] = b[2] /\ a[3] < b[3]
\* the keys of the results S, best first
RECURSIVE BestFirst(_)
BestFirst(S) ==
    IF S = {} THEN <<>>
    ELSE LET b == CHOOSE i \in S : \A j \in S : ~RanksAbove(KeyOf(j), KeyOf(i))
         IN <<KeyOf(b)>> \o BestFirst(S \ {b})
\* the stored results of a game type
ResultsOf(gameType) ==
    {i \in 1..Len(resultados_juegos) : resultados_juegos[i].tipo_juego = gameType}
\* the keys of the entries of a leaderboard response
KeysOf(leaderboard) ==
    [k \in 1..Len(leaderboard) |->
        <<leaderboard[k].score, leaderboard[k].level_reached,
          leaderboard[k].time_played>>]
\* the stored results are (10,2,50), (10,2,30), (15,1,99) of one game
ExampleStored ==
    /\ Len(resultados_juegos) = 3
    /\ \A i \in 1..3 : resultados_juegos[i].tipo_juego = "snake"
    /\ [i \in 1..3 |-> KeyOf(i)] = <<<<10, 2, 50>>, <<10, 2, 30>>, <<15, 1, 99>>>>

\* C11: getLeaderboard(gameType, limit) returns exactly the first
\* min(limit, n) elements of the list of all n stored results whose game type
\* equals gameType, sorted by score descending, then levelReached descending,
\* then timePlayed ascending; for results (10,2,50), (10,2,30), (15,1,99) the
\* order is (15,1,99), (10,2,30), (10,2,50).
C11_LeaderboardIsSortedPrefix ==
    (resp.op = "leaderboard" /\ resp.status = 200) =>
        LET all == BestFirst(ResultsOf(resp.gameType)) IN
        /\ KeysOf(resp.leaderboard)
              = SubSeq(all, 1, IF resp.limit < Len(all) THEN resp.limit ELSE Len(all))
        /\ (ExampleStored /\ resp.gameType = "snake" /\ resp.limit >= 3) =>
              KeysOf(resp.leaderboard)
                 = <<<<15, 1, 99>>, <<10, 2, 30>>, <<10, 2, 50>>>>

\* C11's case: the leaderboard of the three example results, asked with the
\* default limit
C11_Witness ==
    /\ ExampleStored
    /\ resp.op = "leaderboard"
    /\ resp.gameType = "snake"
    /\ resp.query = undefined
    /\ resp.status = 200
    /\ KeysOf(resp.leaderboard) = <<<<15, 1, 99>>, <<10, 2, 30>>, <<10, 2, 50>>>>

\* C12: for every requested limit (any integer, 0 and negative values
\* included, or a non-numeric value) the effective leaderboard limit lies in
\* [1, 100]: values above 100 are capped to 100, 0 and non-numeric input
\* become 10, and the response never has more than 100 entries.
C12_LimitWithinOneAndHundred ==
    resp.op = "leaderboard" =>
        /\ resp.limit \in 1..100
        /\ resp.query \in {undefined, Val("abc"), Val("0")} => resp.limit = 10
        /\ resp.query = Val("500") => resp.limit = 100
        /\ resp.status = 200
        /\ Len(resp.leaderboard) <= 100

\* C13: the ranks in a leaderboard response of k entries are exactly
\* 1, 2, ..., k in response order; entries that tie on score, levelReached
\* and timePlayed still receive distinct consecutive ranks.
C13_RanksAreOneToK ==
    (resp.op = "leaderboard" /\ resp.status = 200) =>
        \A k \in 1..Len(resp.leaderboard) : resp.leaderboard[k].rank = k

\* C13's case: two entries of different players tie on the three keys and
\* are ranked one after the other
C13_Witness ==
    /\ resp.op = "leaderboard"
    /\ resp.status = 200
    /\ \E k \in 1..(Len(resp.leaderboard) - 1) :
          /\ KeysOf(resp.leaderboard)[k] = KeysOf(resp.leaderboard)[k + 1]
          /\ resp.leaderboard[k].player_name # resp.leaderboard[k + 1].player_name
          /\ resp.leaderboard[k].rank = k
          /\ resp.leaderboard[k + 1].rank = k + 1

\* C14: the GameResult store is append-only: each successful
\* recordGameResult adds exactly one new row, and no operation of the system
\* (record, leaderboard, personal best, stats, logout, progress operations)
\* ever changes or removes an existing GameResult row.
C14_ResultsAppendOnly ==
    [][/\ Len(resultados_juegos') >= Len(resultados_juegos)
       /\ SubSeq(resultados_juegos', 1, Len(resultados_juegos)) = resultados_juegos
       /\ (resp' # resp /\ resp'.op = "result" /\ resp'.status = 201)
             => Len(resultados_juegos') = Len(resultados_juegos) + 1
       /\ ~(resp' # resp /\ resp'.op = "result" /\ resp'.status = 201)
             => resultados_juegos' = resultados_juegos]_vars

\* C14's case: two results are stored, one of them a guest's, and that guest
\* has since logged out
C14_Witness ==
    /\ Len(resultados_juegos) = 2
    /\ resp.op = "logout"
    /\ resp.status = 200
    /\ resp.token \in GuestTokens
    /\ \E r \in Rows(resultados_juegos) : r.id_sesion_invitado = resp.token.guestId

\* C15: for a registered user and an existing module with no Progress row
\* for the pair, getProgress creates exactly one row with percentage 0, time
\* spent 0, score 0 and completed false, and returns that row.
C15_GetCreatesZeroRow ==
    [][LET r == inflight[1]
           n == Len(progreso_usuarios)
       IN (r.pc # "idle" /\ r.req.op = "get" /\ inflight'[1] # r) =>
          /\ (r.pc = "select" /\ selectProgress(r.userId, r.req.moduleId) = {}) =>
                /\ inflight'[1].pc = "write"
                /\ progreso_usuarios' = progreso_usuarios
          /\ r.pc = "write" =>
                /\ Len(progreso_usuarios') = n + 1
                /\ SubSeq(progreso_usuarios', 1, n) = progreso_usuarios
                /\ progreso_usuarios'[n + 1].id_usuario = r.userId
                /\ progreso_usuarios'[n + 1].id_modulo = r.req.moduleId
                /\ IsLazilyCreated(progreso_usuarios'[n + 1])
                /\ inflight'[1].pc = "reselect"
          /\ r.pc = "reselect" =>
                /\ progreso_usuarios' = progreso_usuarios
                /\ resp'.op = "get" /\ resp'.status = 200
                /\ resp'.body = <<progreso_usuarios[n]>>
                /\ IsLazilyCreated(resp'.body[1])
                /\ ProgressOf(r.userId, r.req.moduleId) = {n}]_vars

\* C15's case: a registered user's getProgress was answered with the one row
\* of the store, a row of zeros it created
C15_Witness ==
    /\ resp.op = "get"
    /\ resp.token \in UserTokens
    /\ resp.status = 200
    /\ Len(progreso_usuarios) = 1
    /\ resp.body = <<progreso_usuarios[1]>>
    /\ IsLazilyCreated(progreso_usuarios[1])

\* C16: after a successful completeProgress(u, m, score) the row for (u, m)
\* has percentage = 100 and completed = true; its score equals the supplied
\* score when one is supplied, and when no score is supplied the score
\* previously stored in an existing row is preserved.
C16_CompleteSetsOrKeepsScore ==
    [][LET r == inflight[1] IN
       (r.pc = "write" /\ r.req.op = "complete" /\ inflight'[1] # r) =>
          \A k \in 1..Len(progreso_usuarios') :
             (/\ progreso_usuarios'[k].id_usuario = r.userId
              /\ progreso_usuarios'[k].id_modulo = r.req.moduleId) =>
                /\ progreso_usuarios'[k].porcentaje_completado = 100
                /\ progreso_usuarios'[k].esta_completado
                /\ r.req.score # undefined =>
                      progreso_usuarios'[k].puntuacion = r.req.score[1]
                /\ (r.req.score = undefined /\ k <= Len(progreso_usuarios)) =>
                      progreso_usuarios'[k].puntuacion
                         = progreso_usuarios[k].puntuacion]_vars

\* C17: completeProgress applies the same validation as upsertProgress:
\* called by a registered user with score < 0 it fails with a
\* ValidationError (400) and no Progress row is created or changed.
C17_CompleteRejectsNegativeScore ==
    /\ [](\A i \in Slots :
            (inflight[i].pc # "idle" /\ inflight[i].req.op = "complete")
               => ~(inflight[i].req.score # undefined /\ inflight[i].req.score[1] < 0))
    /\ []((/\ resp.op = "complete"
           /\ resp.token \in UserTokens
           /\ resp.score # undefined
           /\ resp.score[1] < 0) => resp.status = 400)

\* C18: for a registered user, upsertProgress with timeSpent < 0 or
\* score < 0 fails with a ValidationError (400) and leaves the progress store
\* unchanged.
C18_NegativeTimeOrScoreRejected ==
    /\ []((/\ resp.op = "put"
           /\ resp.token \in UserTokens
           /\ \/ (resp.time_spent # undefined /\ resp.time_spent[1] < 0)
              \/ (resp.score # undefined /\ resp.score[1] < 0))
          => resp.status = 400)
    /\ [](\A i \in Slots :
            (inflight[i].pc # "idle" /\ inflight[i].req.op = "put") =>
               /\ ~(inflight[i].req.time_spent # undefined
                    /\ inflight[i].req.time_spent[1] < 0)
               /\ ~(inflight[i].req.score # undefined
                    /\ inflight[i].req.score[1] < 0))
    /\ [][(resp' # resp /\ resp'.op = "put" /\ resp'.status = 400)
             => (progreso_usuarios' = progreso_usuarios /\ inflight' = inflight)]_vars

\* C18's case: an upsert whose only fault is a negative time spent was
\* answered 400 while the user has a row
C18_Witness ==
    /\ resp.op = "put"
    /\ resp.token \in UserTokens
    /\ resp.moduleId = 1
    /\ resp.completion_percentage = Val(50)
    /\ resp.time_spent = Val(-1)
    /\ resp.score = Val(7)
    /\ resp.status = 400
    /\ progreso_usuarios # <<>>

\* a progress request of a registered user that passes the validation
ValidProgressRequest(q) ==
    /\ q.op \in {"get", "put", "complete"}
    /\ q.token \in UserTokens
    /\ q.op = "put" =>
          /\ q.completion_percentage # undefined =>
                (q.completion_percentage[1] >= 0 /\ q.completion_percentage[1] <= 100)
          /\ q.time_spent # undefined => q.time_spent[1] >= 0
          /\ q.score # undefined => q.score[1] >= 0

C20_GuestCallsAlwaysAcknowledged ==
    /\ []((resp.op \in {"put", "complete"} /\ resp.token \in GuestTokens)
             => (resp.status = 200 /\ resp.body = <<>>))
    /\ [](\A i \in Slots :
             inflight[i].pc # "idle" => inflight[i].req.token \notin GuestTokens)
    /\ [][(/\ resp' # resp
           /\ resp'.op \in {"put", "complete"}
           /\ resp'.token \in GuestTokens)
             => (store' = store /\ inflight' = inflight)]_vars

\* C20's case: a guest's upsert of a missing module with percentage 101,
\* time -1 and score -1 was acknowledged, the store holding a user's row
C20_Witness ==
    /\ resp.op = "put"
    /\ resp.token \in GuestTokens
    /\ resp.moduleId \notin modulos
    /\ resp.completion_percentage = Val(101)
    /\ resp.time_spent = Val(-1)
    /\ resp.score = Val(-1)
    /\ resp.status = 200
    /\ progreso_usuarios # <<>>

\* C21: a successful upsertProgress(u, m, p, ...) stores percentage = p
\* whatever percentage was stored before: percentage is not monotone, so a
\* later upsert with a lower value lowers the stored percentage, and a row
\* that was completed can return to completed = false.
C21_UpsertStoresGivenPercentage ==
    [][LET r == inflight[1] IN
       (/\ r.pc = "write"
        /\ r.req.op = "put"
        /\ r.req.completion_percentage # undefined
        /\ inflight'[1] # r) =>
          /\ \E k \in 1..Len(progreso_usuarios') :
                /\ progreso_usuarios'[k].id_usuario = r.userId
                /\ progreso_usuarios'[k].id_modulo = r.req.moduleId
          /\ \A k \in 1..Len(progreso_usuarios') :
                (/\ progreso_usuarios'[k].id_usuario = r.userId
                 /\ progreso_usuarios'[k].id_modulo = r.req.moduleId) =>
                   /\ progreso_usuarios'[k].porcentaje_completado
                         = r.req.completion_percentage[1]
                   /\ progreso_usuarios'[k].esta_completado
                         = (r.req.completion_percentage[1] >= 100)]_vars

\* C21's case: the last response showed the row completed at 100; an upsert
\* of 99 has since been written and the row stands at 99, not completed
C21_Witness ==
    /\ resp.op \in {"put", "complete"}
    /\ resp.status = 200
    /\ resp.body # <<>>
    /\ resp.body[1].porcentaje_completado = 100
    /\ resp.body[1].esta_completado
    /\ inflight[1].pc = "reselect"
    /\ inflight[1].req.op = "put"
    /\ inflight[1].req.completion_percentage = Val(99)
    /\ \E r \in Rows(progreso_usuarios) :
          /\ r.id_progreso = resp.body[1].id_progreso
          /\ r.porcentaje_completado = 99
          /\ ~r.esta_completado

\* C22: in every reachable state every stored Progress row has percentage in
\* [0, 100], time spent >= 0 and score >= 0, for any sequence of getProgress,
\* upsertProgress and completeProgress calls with arbitrary integer inputs.
C22_RowsWithinRanges ==
    \A r \in Rows(progreso_usuarios) :
        /\ r.porcentaje_completado >= 0
        /\ r.porcentaje_completado <= 100
        /\ r.tiempo_empleado >= 0
        /\ r.puntuacion >= 0

\* C23: when calls for a registered (user, module) pair do not overlap, any
\* sequence of getProgress, upsertProgress and completeProgress leaves
\* exactly one Progress row for the pair after the first successful call: the
\* first creates it, every later write updates that same row in place, and
\* the row is never deleted.
C23_OneRowWhenCallsDoNotOverlap ==
    /\ [](\A u \in 1..MaxUsers, m \in ModuleIds : Cardinality(ProgressOf(u, m)) <= 1)
    /\ []((/\ resp.op \in {"get", "put", "complete"}
           /\ resp.token \in UserTokens
           /\ resp.status = 200)
             => Cardinality(ProgressOf(resp.token.userId, resp.moduleId)) = 1)
    /\ [][/\ Len(progreso_usuarios') >= Len(progreso_usuarios)
          /\ \A k \in 1..Len(progreso_usuarios) :
                /\ progreso_usuarios'[k].id_progreso = progreso_usuarios[k].id_progreso
                /\ progreso_usuarios'[k].id_usuario = progreso_usuarios[k].id_usuario
                /\ progreso_usuarios'[k].id_modulo = progreso_usuarios[k].id_modulo]_vars

\* C23's case: a row that getProgress created has since been rewritten by a
\* completeProgress, and it is still the only row
C23_Witness ==
    /\ resp.op = "get"
    /\ resp.token \in UserTokens
    /\ resp.status = 200
    /\ inflight[1].pc = "reselect"
    /\ inflight[1].req.op = "complete"
    /\ Len(progreso_usuarios) = 1
    /\ progreso_usuarios[1].id_progreso = resp.body[1].id_progreso
    /\ progreso_usuarios[1].porcentaje_completado = 100

\* C24: createGuestSession with a missing username or one whose trimmed
\* length is below 2 fails with a ValidationError (400), creates no guest
\* session row and issues no token; with trimmed length >= 2 it creates one
\* row with active = true and expires-at = creation time + 1 hour.
C24_GuestNameValidated ==
    /\ [](resp.op = "guest" =>
             /\ resp.status \in {200, 400}
             /\ resp.status = 400
                   <=> resp.username \in {undefined, Val(""), Val(" B ")})
    /\ [][(resp' # resp /\ resp'.op = "guest" /\ resp'.status = 400)
             => (sesiones_invitados' = sesiones_invitados /\ tokens' = tokens)]_vars
    /\ [][(resp' # resp /\ resp'.op = "guest" /\ resp'.status = 200) =>
             LET n == Len(sesiones_invitados) IN
             /\ Len(sesiones_invitados') = n + 1
             /\ SubSeq(sesiones_invitados', 1, n) = sesiones_invitados
             /\ sesiones_invitados'[n + 1].esta_activo
             /\ sesiones_invitados'[n + 1].fecha_creacion = now
             /\ sesiones_invitados'[n + 1].fecha_expiracion = now + TicksPerHour
             /\ tokens' = tokens \cup {resp'.token}
             /\ resp'.token \notin tokens]_vars

\* C24's case: a username of one letter between blanks was refused while a
\* session created earlier, at a later time than 0, is stored
C24_Witness ==
    /\ resp.op = "guest"
    /\ resp.username = Val(" B ")
    /\ resp.status = 400
    /\ \E g \in Rows(sesiones_invitados) :
          /\ g.fecha_creacion > 0
          /\ g.fecha_expiracion = g.fecha_creacion + TicksPerHour
          /\ g.esta_activo

\* C25: token verification distinguishes three failures: no token supplied
\* yields AuthError.Missing (401), a bad signature or shape yields
\* AuthError.Invalid (403), and a correctly signed token past its ttl yields
\* AuthError.Expired (an outcome distinct from Invalid); in all three cases
\* no Identity is produced and the downstream handler does not run.
C25_ThreeAuthFailures ==
    [][(resp' # resp /\ resp'.op = "authenticate") =>
          /\ resp'.token.sig = "none" => resp'.status = 401
          /\ resp'.token.sig = "bad" => resp'.status = 403
          /\ (resp'.token.sig = "ok" /\ now >= resp'.token.exp)
                => resp'.status \notin {200, 401, 403}
          /\ resp'.status # 200 => "user" \notin DOMAIN resp']_vars

\* C26: on successful verification the Identity's subject id is the token's
\* userId when present and otherwise its guestId, and the Identity's kind is
\* the token's kind claim, defaulting to the registered kind when the claim
\* is absent (so a token carrying only a guestId and no kind is treated as a
\* registered identity with that id).
C26_IdentityFromClaims ==
    (resp.op = "authenticate" /\ resp.status = 200) =>
        /\ resp.user.userId = IF resp.token.userId # NULL THEN resp.token.userId
                              ELSE resp.token.guestId
        /\ resp.user.userType = IF resp.token.userType # "" THEN resp.token.userType
                                ELSE "student"
        /\ (resp.token.userId = NULL /\ resp.token.userType = "") =>
              (resp.user.userType # "guest" /\ resp.user.userId = resp.token.guestId)

\* C26's case: a token with a user id, another guest id and no kind was
\* verified to the registered identity of the user id
C26_Witness ==
    /\ resp.op = "authenticate"
    /\ resp.status = 200
    /\ resp.token.userId = 1
    /\ resp.token.guestId = 2
    /\ resp.token.userType = ""
    /\ resp.user.userId = 1
    /\ resp.user.userType = "student"

\* C27: for every guest session created, the token issued at creation
\* verifies (before its ttl) to an Identity of kind guest whose id equals the
\* id of the stored GuestSession row and whose sessionId equals that row's
\* random session identifier.
C27_GuestTokenNamesItsSession ==
    /\ (resp.op = "guest" /\ resp.status = 200) =>
          /\ resp.token \in GuestTokens
          /\ resp.id \in 1..Len(sesiones_invitados)
          /\ sesiones_invitados[resp.id].id_sesion_invitado = resp.id
    /\ (resp.op = "authenticate" /\ resp.token \in GuestTokens) =>
          /\ now < resp.token.exp => resp.status = 200
          /\ resp.status = 200 =>
                /\ resp.user.userType = "guest"
                /\ \E g \in Rows(sesiones_invitados) :
                      /\ g.id_sesion_invitado = resp.user.userId
                      /\ g.id_sesion_invitado = resp.user.guestId
                      /\ g.identificador_sesion = resp.user.sessionId
                      /\ g.nombre_usuario = resp.user.username

\* C27's case: half an hour after its creation the token of a guest session
\* was verified to the guest of that session
C27_Witness ==
    /\ resp.op = "authenticate"
    /\ resp.token \in GuestTokens
    /\ resp.status = 200
    /\ \E g \in Rows(sesiones_invitados) :
          /\ now = g.fecha_creacion + 1
          /\ g.id_sesion_invitado = resp.user.userId
          /\ g.identificador_sesion = resp.user.sessionId

\* the tokens of the registrations and those of the logins
RegistrationTokens == {t \in tokens : t.userType = "student"}
LoginTokens == {t \in tokens : t.userType = "estudiante"}

\* C28: after registering a user and then logging in with the same
\* credentials, the login token verifies to an Identity with
\* kind = registered and with the same subject id as the id returned by the
\* registration response (and as the Identity of the registration token).
C28_LoginKeepsRegisteredIdentity ==
    /\ (resp.op = "register" /\ resp.status = 201) =>
          (resp.token \in RegistrationTokens /\ resp.token.userId = resp.id)
    /\ (resp.op = "login" /\ resp.status = 200) =>
          /\ resp.token \in LoginTokens
          /\ resp.token.userId = resp.id
    /\ (resp.op = "authenticate" /\ resp.token \in LoginTokens) =>
          /\ now < resp.token.exp => resp.status = 200
          /\ resp.status = 200 =>
                /\ resp.user.userType # "guest"
                /\ \E reg \in RegistrationTokens :
                      /\ reg.email = resp.user.email
                      /\ reg.userId = resp.user.userId
                /\ \A reg \in RegistrationTokens :
                      reg.email = resp.user.email => reg.userId = resp.user.userId

\* C28's case: the token of a login made some time after the registration
\* was verified to the user the registration created
C28_Witness ==
    /\ resp.op = "authenticate"
    /\ resp.token \in LoginTokens
    /\ resp.status = 200
    /\ \E u \in Rows(usuarios) :
          /\ u.id_usuario = resp.user.userId
          /\ u.ultimo_inicio_sesion > u.fecha_creacion


\* C29: logging a guest out leaves its session inactive and every other row
\* as it was; on a session already inactive it changes nothing in the store;
\* and every authenticated logout is answered 200
C29_LogoutIdempotent ==
    [][\A t \in GuestTokens :
          (Logout(t) /\ authenticateToken(t) = 200) =>
             /\ resp'.status = 200
             /\ Len(sesiones_invitados') = Len(sesiones_invitados)
             /\ \A i \in 1..Len(sesiones_invitados) :
                   IF sesiones_invitados[i].id_sesion_invitado = t.guestId
                   THEN sesiones_invitados'[i] =
                           [sesiones_invitados[i] EXCEPT !.esta_activo = FALSE]
                   ELSE sesiones_invitados'[i] = sesiones_invitados[i]
             /\ (\A g \in Rows(sesiones_invitados) :
                    g.id_sesion_invitado = t.guestId => ~g.esta_activo)
                 => store' = store]_vars

\* C29 witness: a guest's logout was answered 200 and its session is inactive
C29_Witness ==
    /\ resp.op = "logout"
    /\ resp.status = 200
    /\ resp.token \in GuestTokens
    /\ \E g \in Rows(sesiones_invitados) :
          g.id_sesion_invitado = resp.token.guestId /\ ~g.esta_activo

\* the stored results of the game type that belong to the identity of token t
MineOf(t, gameType) ==
    {i \in 1..Len(resultados_juegos) :
        /\ resultados_juegos[i].tipo_juego = gameType
        /\ IF t.userType = "guest"
           THEN /\ resultados_juegos[i].id_sesion_invitado = t.guestId
                /\ resultados_juegos[i].id_usuario = NULL
           ELSE /\ resultados_juegos[i].id_usuario = t.userId
                /\ resultados_juegos[i].id_sesion_invitado = NULL}

\* C30: a personal best answers with the count of the caller's own results
\* of the game type; its best record is one of them and carries the first
\* key of them under the leaderboard ordering; the summary's best score is
\* that record's score; and with no such result the best record is absent
\* and the count is 0
C30_PersonalBestIsOwnBest ==
    [][(resp' # resp /\ resp'.op = "personal-best" /\ resp'.status = 200) =>
          LET mine == MineOf(resp'.token, resp'.gameType)
              best == resp'.bestGame
          IN /\ resp'.summary.times_played = Cardinality(mine)
             /\ mine = {} => best = <<>>
             /\ mine # {} =>
                   /\ Len(best) = 1
                   /\ \E i \in mine :
                         /\ KeyOf(i) = <<best[1].score, best[1].level_reached,
                                         best[1].time_played>>
                         /\ best[1].played_at = resultados_juegos[i].fecha_juego
                   /\ <<best[1].score, best[1].level_reached,
                        best[1].time_played>> = BestFirst(mine)[1]
                   /\ resp'.summary.best_score = best[1].score]_vars

\* C30 witness: a personal best over two of the caller's results with
\* different scores, while another identity holds a higher score in the game
C30_Witness ==
    /\ resp.op = "personal-best"
    /\ resp.status = 200
    /\ Len(resp.bestGame) = 1
    /\ resp.summary.times_played = 2
    /\ \E i, j \in MineOf(resp.token, resp.gameType) :
          resultados_juegos[i].puntuacion < resultados_juegos[j].puntuacion
    /\ \E k \in 1..Len(resultados_juegos) :
          /\ k \notin MineOf(resp.token, resp.gameType)
          /\ resultados_juegos[k].tipo_juego = resp.gameType
          /\ resultados_juegos[k].puntuacion > resp.bestGame[1].score

\* C30 witness of the empty case: a personal best with no result of the
\* caller while the game type has results of another identity
C30_WitnessNone ==
    /\ resp.op = "personal-best"
    /\ resp.status = 200
    /\ resp.bestGame = <<>>
    /\ resp.summary.times_played = 0
    /\ \E k \in 1..Len(resultados_juegos) :
          resultados_juegos[k].tipo_juego = resp.gameType

\* the row a waiting POST /result has submitted, under the key id
SubmittedRow(r, id) ==
    [id_resultado |-> id,
     id_usuario |-> IF r.req.token.userType = "guest" THEN NULL
                    ELSE r.req.token.userId,
     id_sesion_invitado |-> IF r.req.token.userType = "guest"
                            THEN r.req.token.guestId ELSE NULL,
     tipo_juego |-> r.req.gameType[1],
     puntuacion |-> r.req.score[1],
     nivel_alcanzado |-> r.req.levelReached[1],
     tiempo_jugado |-> r.req.timePlayed[1],
     metadatos |-> <<>>,
     fecha_juego |-> r.row.fecha_juego]

\* C31: POST /result calls with valid inputs that run at the same time each
\* insert one row: a waiting insert can always run, whatever the other calls
\* wait for; when it runs the table gains exactly the row of the values the
\* call submitted, under a fresh key, every earlier row staying as it was,
\* and the call is answered 201 with that key; no other step changes the
\* table
C31_ConcurrentResultsAllInserted ==
    /\ [](\A i \in Slots : inflight[i].pc = "insert" => ENABLED InsertResult(i))
    /\ [](\A a, b \in 1..Len(resultados_juegos) :
             resultados_juegos[a].id_resultado = resultados_juegos[b].id_resultado
                => a = b)
    /\ [][/\ \A i \in Slots :
               (inflight[i].pc = "insert" /\ inflight'[i].pc = "idle") =>
                  /\ resultados_juegos' =
                        Append(resultados_juegos,
                               SubmittedRow(inflight[i],
                                            Len(resultados_juegos) + 1))
                  /\ resp'.status = 201
                  /\ resp'.resultId = Len(resultados_juegos) + 1
                  /\ \A j \in Slots \ {i} : inflight'[j] = inflight[j]
          /\ (\A i \in Slots :
                 ~(inflight[i].pc = "insert" /\ inflight'[i].pc = "idle"))
                => resultados_juegos' = resultados_juegos]_vars

\* C31 witness: the second of two overlapping calls by different identities
\* has been answered with its row stored while the first still waits
C31_Witness ==
    /\ inflight[1].pc = "insert"
    /\ inflight[2].pc = "idle"
    /\ resp.op = "result"
    /\ resp.status = 201
    /\ resp.token # inflight[1].req.token
    /\ resp.resultId = Len(resultados_juegos)
    /\ resultados_juegos[resp.resultId].puntuacion = resp.score[1]

\* C32: a transaction resolves exactly when the connection was acquired and
\* begin, the callback and commit all succeeded, and then it is committed
\* with no rollback; when begin, the callback or commit fails, rollback is
\* called and the caller gets an error; nothing rolled back is reported as a
\* success; and a connection that was acquired is released exactly once on
\* every path, a failed rollback included (none is released when none was
\* acquired)
C32_TransactionCommitsOrRollsBack ==
    resp.op = "transaction" =>
       /\ resp.outcome \in {"resolved", "rejected"}
       /\ resp.outcome = "resolved" <=> resp.failed = ""
       /\ resp.outcome = "resolved" =>
             resp.committed /\ ~resp.rollbackCalled /\ ~resp.rolledBack
       /\ resp.failed \in {"beginTransaction", "callback", "commit"} =>
             resp.rollbackCalled /\ ~resp.committed
       /\ resp.rolledBack => resp.outcome = "rejected"
       /\ resp.released = (IF resp.acquired THEN 1 ELSE 0)
       /\ resp.acquired <=> resp.failed # "getConnection"

\* C32 witness: commit failed, the rollback failed too, and the connection
\* has been released once
C32_Witness ==
    /\ resp.op = "transaction"
    /\ resp.failed = "commit"
    /\ resp.rollbackCalled
    /\ ~resp.rolledBack
    /\ resp.released = 1

\* C33: no two rows of usuarios share an email, and a registration that
\* passes validation is answered 201, or 409 when the email is taken and no
\* row is inserted, registrations that run at the same time included
C33_EmailsStayUnique ==
    /\ \A a, b \in 1..Len(usuarios) :
          usuarios[a].correo_electronico = usuarios[b].correo_electronico
             => a = b
    /\ resp.op = "register" => resp.status \in {201, 400, 409}

\* the player name of the stored result i: the name of the user of its user
\* id, else the username of the guest session of its session id, else the
\* placeholder
NameOf(i) ==
    LET r == resultados_juegos[i] IN
    IF r.id_usuario # NULL /\ \E u \in Rows(usuarios) : u.id_usuario = r.id_usuario
    THEN (CHOOSE u \in Rows(usuarios) : u.id_usuario = r.id_usuario).nombre
    ELSE IF /\ r.id_sesion_invitado # NULL
            /\ \E g \in Rows(sesiones_invitados) :
                  g.id_sesion_invitado = r.id_sesion_invitado
    THEN (CHOOSE g \in Rows(sesiones_invitados) :
             g.id_sesion_invitado = r.id_sesion_invitado).nombre_usuario
    ELSE "Anonymous"

ActingOn(i) == IF inflight[i].pc # "idle" THEN inflight[i] ELSE inflight'[i]

\* C36: a step of getProgress, upsertProgress or completeProgress of a
\* registered user u for module m leaves the rows of usuarios,
\* sesiones_invitados and resultados_juegos as they were, leaves every row
\* of progreso_usuarios of another (user, module) pair as it was, and adds
\* no row but one of (u, m)
C36_ProgressTouchesOnlyItsPair ==
    [][/\ (resp' # resp /\ resp'.op \in {"get", "put", "complete"}
           /\ inflight' = inflight) => store' = store
       /\ \A i \in Slots : inflight'[i] # inflight[i] =>
             LET r == ActingOn(i)
                 u == r.req.token.userId
                 m == r.req.moduleId
             IN /\ r.userId = u
                /\ <<usuarios, sesiones_invitados, resultados_juegos>>'
                      = <<usuarios, sesiones_invitados, resultados_juegos>>
                /\ Len(progreso_usuarios') >= Len(progreso_usuarios)
                /\ \A j \in 1..Len(progreso_usuarios') :
                      IF j <= Len(progreso_usuarios)
                      THEN \/ progreso_usuarios'[j] = progreso_usuarios[j]
                           \/ /\ progreso_usuarios[j].id_usuario = u
                              /\ progreso_usuarios[j].id_modulo = m
                              /\ progreso_usuarios'[j].id_usuario = u
                              /\ progreso_usuarios'[j].id_modulo = m
                      ELSE /\ progreso_usuarios'[j].id_usuario = u
                           /\ progreso_usuarios'[j].id_modulo = m]_vars

\* C36 witness: a user's module has been completed while the row of another
\* user is not complete, and a guest session and a game result are stored
C36_Witness ==
    /\ resp.op = "complete"
    /\ resp.status = 200
    /\ \E a, b \in Rows(progreso_usuarios) :
          /\ a.id_usuario = resp.token.userId
          /\ a.esta_completado
          /\ b.id_usuario # resp.token.userId
          /\ ~b.esta_completado
    /\ sesiones_invitados # <<>>
    /\ resultados_juegos # <<>>

\* the stored results of the identity of token t, over all games, and their
\* scores
MineAll(t) == UNION {MineOf(t, g) : g \in BoardGames}
ScoresOf(S) == {resultados_juegos[i].puntuacion : i \in S}

\* C37: a registered user and a guest with the same number are kept apart:
\* a personal best and the statistics count the caller's own results only and
\* show no score but of the caller's own results, and a logout by a
\* registered user leaves every guest session as it was
C37_SameNumberKeptApart ==
    /\ [][(resp' # resp /\ resp'.op = "personal-best" /\ resp'.status = 200) =>
            LET mine == MineOf(resp'.token, resp'.gameType) IN
            /\ resp'.summary.times_played = Cardinality(mine)
            /\ resp'.summary.best_score \in ScoresOf(mine) \cup {NULL}
            /\ \A k \in 1..Len(resp'.bestGame) :
                  resp'.bestGame[k].score \in ScoresOf(mine)]_vars
    /\ [][(resp' # resp /\ resp'.op = "stats" /\ resp'.status = 200) =>
            LET mine == MineAll(resp'.token) IN
            /\ resp'.general.total_games_played = Cardinality(mine)
            /\ resp'.general.best_score \in ScoresOf(mine) \cup {NULL}
            /\ Len(resp'.recentGames) = Cardinality(mine)
            /\ \A k \in 1..Len(resp'.recentGames) :
                  resp'.recentGames[k].score \in ScoresOf(mine)
            /\ \A k \in 1..Len(resp'.byGameType) :
                  /\ resp'.byGameType[k].best_score \in ScoresOf(mine)
                  /\ resp'.byGameType[k].games_played
                        = Cardinality(MineOf(resp'.token,
                                             resp'.byGameType[k].game_type))]_vars
    /\ [][\A t \in UserTokens :
             Logout(t) => sesiones_invitados' = sesiones_invitados]_vars

\* C37 witness: the registered user 1 reads statistics of its own results
\* while guest session 1, active, has a result with a higher score
C37_Witness ==
    /\ resp.op = "stats"
    /\ resp.status = 200
    /\ resp.token \in UserTokens
    /\ resp.general.total_games_played = 2
    /\ \E g \in Rows(sesiones_invitados) :
          /\ g.id_sesion_invitado = resp.token.userId
          /\ g.esta_activo
          /\ \E r \in Rows(resultados_juegos) :
                /\ r.id_sesion_invitado = g.id_sesion_invitado
                /\ r.puntuacion > resp.general.best_score

\* the value an upsert stores for a field of the request: 0 when omitted
StoredFor(v) == IF v = undefined THEN 0 ELSE v[1]

\* C38: a successful upsert overwrites the percentage, the time spent and the
\* score of the row of its pair, each with the value of the request or with
\* 0 when the request omits it, and completed with whether a percentage was
\* given and is at least 100
C38_UpsertOverwritesOmittedWithZero ==
    [][LET r == inflight[1] IN
       (/\ r.pc = "write"
        /\ r.req.op = "put"
        /\ inflight'[1] # r) =>
          /\ \E k \in 1..Len(progreso_usuarios') :
                /\ progreso_usuarios'[k].id_usuario = r.userId
                /\ progreso_usuarios'[k].id_modulo = r.req.moduleId
          /\ \A k \in 1..Len(progreso_usuarios') :
                (/\ progreso_usuarios'[k].id_usuario = r.userId
                 /\ progreso_usuarios'[k].id_modulo = r.req.moduleId) =>
                   /\ progreso_usuarios'[k].porcentaje_completado
                         = StoredFor(r.req.completion_percentage)
                   /\ progreso_usuarios'[k].tiempo_empleado
                         = StoredFor(r.req.time_spent)
                   /\ progreso_usuarios'[k].puntuacion
                         = StoredFor(r.req.score)
                   /\ progreso_usuarios'[k].esta_completado
                         = (r.req.completion_percentage # undefined
                            /\ r.req.completion_percentage[1] >= 100)]_vars

\* C38 witness: the last response showed the row completed at 100 with a
\* score; an upsert with no percentage and no score has since been written
\* and the row stands at 0, score 0, not completed
C38_Witness ==
    /\ resp.op = "complete"
    /\ resp.status = 200
    /\ resp.body # <<>>
    /\ resp.body[1].porcentaje_completado = 100
    /\ resp.body[1].puntuacion = 7
    /\ inflight[1].pc = "reselect"
    /\ inflight[1].req.op = "put"
    /\ inflight[1].req.completion_percentage = undefined
    /\ inflight[1].req.score = undefined
    /\ \E r \in Rows(progreso_usuarios) :
          /\ r.id_progreso = resp.body[1].id_progreso
          /\ r.porcentaje_completado = 0
          /\ r.puntuacion = 0
          /\ ~r.esta_completado

\* C39: POST complete on a pair that has a row leaves the time spent of that
\* row as it was, and on a pair without a row creates the row with time
\* spent 0
C39_CompleteKeepsTimeSpent ==
    [][LET r == inflight[1]
           n == Len(progreso_usuarios)
       IN (/\ r.pc = "write"
           /\ r.req.op = "complete"
           /\ inflight'[1] # r) =>
             IF ProgressOf(r.userId, r.req.moduleId) # {}
             THEN /\ Len(progreso_usuarios') = n
                  /\ \A k \in 1..n :
                        progreso_usuarios'[k].tiempo_empleado
                           = progreso_usuarios[k].tiempo_empleado
                  /\ \A k \in ProgressOf(r.userId, r.req.moduleId) :
                        progreso_usuarios'[k].esta_completado
             ELSE /\ Len(progreso_usuarios') = n + 1
                  /\ progreso_usuarios'[n + 1].id_usuario = r.userId
                  /\ progreso_usuarios'[n + 1].id_modulo = r.req.moduleId
                  /\ progreso_usuarios'[n + 1].tiempo_empleado = 0
                  /\ progreso_usuarios'[n + 1].esta_completado]_vars

\* C39 witness: the last response showed the row at 50 with time spent 3; a
\* POST complete has since been written and the row is completed with time
\* spent 3
C39_Witness ==
    /\ resp.op = "put"
    /\ resp.status = 200
    /\ resp.body # <<>>
    /\ resp.body[1].porcentaje_completado = 50
    /\ resp.body[1].tiempo_empleado = 3
    /\ inflight[1].pc = "reselect"
    /\ inflight[1].req.op = "complete"
    /\ \E r \in Rows(progreso_usuarios) :
          /\ r.id_progreso = resp.body[1].id_progreso
          /\ r.esta_completado
          /\ r.tiempo_empleado = 3

\* C40: a GET by a registered user for a pair that has a row answers 200
\* with a stored row of the pair and leaves the whole store, the row's last
\* access included, as it was
C40_GetExistingIsPureRead ==
    [][LET r == inflight[1] IN
       (/\ r.pc = "select"
        /\ r.req.op = "get"
        /\ ProgressOf(r.userId, r.req.moduleId) # {}
        /\ inflight'[1] # r) =>
          /\ store' = store
          /\ inflight'[1] = Idle
          /\ resp'.op = "get"
          /\ resp'.status = 200
          /\ Len(resp'.body) = 1
          /\ \E k \in ProgressOf(r.userId, r.req.moduleId) :
                resp'.body[1] = progreso_usuarios[k]]_vars

\* C40 witness: a GET has returned the row an earlier PUT wrote, and the
\* stored row still carries the time of that PUT
C40_Witness ==
    /\ resp.op = "get"
    /\ resp.status = 200
    /\ resp.body # <<>>
    /\ resp.body[1].porcentaje_completado = 99
    /\ resp.body[1].ultimo_acceso < now
    /\ resp.body[1] \in Rows(progreso_usuarios)

=============================================================================
